---- MODULE Spec2Model ----
(***************************************************************************)
(* Model of the MXL Rust bindings (rust/mxl) and of the GStreamer pacing   *)
(* elements built on them (rust/gst-mxl-rs).                               *)
(*                                                                         *)
(* The ring store itself (the MXL C library reached through mxl_sys) is    *)
(* not part of the Rust sources; its operations are the Store* operators   *)
(* below, written from the design document (sections 3, 4.1, 7 and the     *)
(* glossary) and from the doc comments of the Rust wrappers.               *)
(***************************************************************************)
EXTENDS Integers, Sequences, FiniteSets, TLC

(***************************************************************************)
(* Bounds of the model.                                                    *)
(***************************************************************************)
GrainCount == 2     \* grains in the discrete ring (flow config grainCount)
MaxIndex == 2       \* largest grain index a writer or reader uses
MaxSampleIndex == 4 \* largest sample index a writer or reader uses
TotalSlices == 2    \* slices per grain (GrainInfo.totalSlices)
GrainSize == 2      \* payload bytes per grain (GrainInfo.grainSize)
MaxFill == 2        \* byte values a writer fills a payload with: 1..MaxFill
BufferLength == 4   \* samples per channel in the continuous ring (bufferLength)
Channels == 2       \* channels of the continuous flow (buffer_slice.count)
SampleWidth == 1    \* bytes per sample
MaxCount == 2       \* largest sample count of one open_samples / get_samples
MaxSessions == 2    \* write sessions a writer opens in one behaviour

VARIABLES
    flowKind,   \* "discrete" or "continuous": the format of the flow
    store,      \* the ring store: head index, grain slots, open write
    access,     \* the live GrainWriteAccess / SamplesWriteAccess, or NoAccess
    sess,       \* history of the current / last write session
    committed,  \* history: what the last commit published
    el          \* the GStreamer element on top of the flow: its pacing state

vars == <<flowKind, store, access, sess, committed, el>>

NoAccess == [kind |-> "none"]
NoElement == [kind |-> "none"]
NoOpen == [index |-> 0, count |-> 0, open |-> FALSE]
Fill(b) == [k \in 1..GrainSize |-> b]
Min(a, b) == IF a < b THEN a ELSE b

(***************************************************************************)
(* The store (MXL C API).                                                  *)
(***************************************************************************)
Slot(i) == i % GrainCount

\* Bytes of one channel region of the continuous ring.
Stride == BufferLength * SampleWidth

\* headIndex = -1: nothing committed yet, every index is too early.
StoreInit ==
    [headIndex |-> 0 - 1,
     grains |-> [s \in 0..(GrainCount - 1) |->
                    [info |-> [grainSize |-> GrainSize, totalSlices |-> TotalSlices,
                               validSlices |-> 0, flags |-> 0],
                     payload |-> Fill(0)]],
     samples |-> [a \in 0..(Channels * Stride - 1) |-> 0],
     open |-> NoOpen]

\* flow_writer_open_grain: the grain info and the payload pointer of slot i.
StoreOpenGrain(st, i) ==
    [st EXCEPT !.open = [index |-> i, count |-> 1, open |-> TRUE]]

StoreGrainInfo(st, i) ==
    [st.grains[Slot(i)].info EXCEPT !.validSlices = 0]

\* flow_writer_commit_grain: the head becomes the committed index.
StoreCommitGrain(st, info) ==
    IF ~st.open.open THEN st
    ELSE [st EXCEPT !.headIndex = st.open.index,
                    !.grains[Slot(st.open.index)].info = info,
                    !.open = NoOpen]

\* flow_writer_cancel_grain: the open write is forgotten; memory is left as is.
StoreCancelGrain(st) == [st EXCEPT !.open = NoOpen]

\* flow_reader_get_grain_non_blocking
StoreGetGrain(st, i) ==
    IF i > st.headIndex THEN [status |-> "too_early"]
    ELSE IF i + GrainCount <= st.headIndex THEN [status |-> "too_late"]
    ELSE [status |-> "ok", info |-> st.grains[Slot(i)].info,
          payload_ptr |-> Slot(i)]

\* The wrapped multi buffer slice of the count samples ending at index: two
\* fragments of channel 0 (byte offset and size) and the channel stride.
StoreSlice(index, count) ==
    LET first == (index + 1 - count) % BufferLength
        n1 == Min(count, BufferLength - first)
    IN  [base |-> [fragments |->
                    [f \in 0..1 |->
                        IF f = 0
                        THEN [pointer |-> first * SampleWidth, size |-> n1 * SampleWidth]
                        ELSE [pointer |-> 0, size |-> (count - n1) * SampleWidth]]],
         stride |-> Stride,
         count |-> Channels]

\* flow_writer_open_samples
StoreOpenSamples(st, index, count) ==
    [st EXCEPT !.open = [index |-> index, count |-> count, open |-> TRUE]]

\* flow_writer_commit_samples: the head becomes the last sample of the batch.
StoreCommitSamples(st) ==
    IF ~st.open.open THEN st
    ELSE [st EXCEPT !.headIndex = st.open.index, !.open = NoOpen]

\* flow_writer_cancel_samples
StoreCancelSamples(st) == [st EXCEPT !.open = NoOpen]

\* flow_reader_get_samples_non_blocking
StoreGetSamples(st, index, count) ==
    IF index > st.headIndex THEN [status |-> "too_early"]
    ELSE IF index + BufferLength < st.headIndex + count THEN [status |-> "too_late"]
    ELSE [status |-> "ok", buffer_slice |-> StoreSlice(index, count)]

\* One store call issued by a wrapper.
StoreCall(st, call) ==
    CASE call.op = "commit_grain" -> StoreCommitGrain(st, call.info)
      [] call.op = "cancel_grain" -> StoreCancelGrain(st)
      [] call.op = "commit_samples" -> StoreCommitSamples(st)
      [] call.op = "cancel_samples" -> StoreCancelSamples(st)
      [] OTHER -> st

RECURSIVE StoreCalls(_, _)
StoreCalls(st, calls) ==
    IF calls = <<>> THEN st
    ELSE StoreCalls(StoreCall(st, Head(calls)), Tail(calls))

(***************************************************************************)
(* GrainWriteAccess (rust/mxl/src/grain/write_access.rs).                  *)
(* Each *Calls operator gives the store calls a method issues, in order.   *)
(***************************************************************************)
\* Drop for GrainWriteAccess
GrainDropCalls(a) ==
    IF ~a.committed_or_canceled THEN <<[op |-> "cancel_grain"]>> ELSE <<>>

\* The result of GrainWriteAccess::commit (the store's commit does not fail here).
GrainCommitOk(a, valid_slices) == ~(valid_slices > a.grain_info.totalSlices)

\* commit that releases the session instead of publishing it
GrainCommitCalls_cancels(a, valid_slices) ==
    LET self == [a EXCEPT !.committed_or_canceled = TRUE]
        body == IF valid_slices > self.grain_info.totalSlices THEN <<>>
                ELSE <<[op |-> "cancel_grain"]>>
    IN  body \o GrainDropCalls(self)

\* commit without the valid_slices > totalSlices check
GrainCommitCalls_unchecked(a, valid_slices) ==
    LET self == [a EXCEPT !.committed_or_canceled = TRUE]
        body == <<[op |-> "commit_grain",
                   info |-> [self.grain_info EXCEPT !.validSlices = valid_slices]]>>
    IN  body \o GrainDropCalls(self)

\* GrainWriteAccess::commit(valid_slices): the calls of the body, then those of
\* the drop of the consumed self.
GrainCommitCalls(a, valid_slices) ==
    LET self == [a EXCEPT !.committed_or_canceled = TRUE]
        body == IF valid_slices > self.grain_info.totalSlices THEN <<>>
                ELSE <<[op |-> "commit_grain",
                        info |-> [self.grain_info EXCEPT !.validSlices = valid_slices]]>>
    IN  body \o GrainDropCalls(self)

\* GrainWriteAccess::cancel()
GrainCancelCalls(a) ==
    LET self == [a EXCEPT !.committed_or_canceled = TRUE]
    IN  <<[op |-> "cancel_grain"]>> \o GrainDropCalls(self)

(***************************************************************************)
(* SamplesWriteAccess (rust/mxl/src/samples/write_access.rs).              *)
(***************************************************************************)
\* Drop for SamplesWriteAccess
SamplesDropCalls(a) ==
    IF ~a.committed_or_canceled THEN <<[op |-> "cancel_samples"]>> ELSE <<>>

\* SamplesWriteAccess::commit()
SamplesCommitCalls(a) ==
    LET self == [a EXCEPT !.committed_or_canceled = TRUE]
    IN  <<[op |-> "commit_samples"]>> \o SamplesDropCalls(self)

\* SamplesWriteAccess::cancel()
SamplesCancelCalls(a) ==
    LET self == [a EXCEPT !.committed_or_canceled = TRUE]
    IN  <<[op |-> "cancel_samples"]>> \o SamplesDropCalls(self)

\* SamplesWriteAccess::channel_data_mut(channel): the two byte slices
\* (pointer, size) of one channel.
ChannelDataMut(buffer_slice, channel) ==
    LET ptr_1 == buffer_slice.base.fragments[0].pointer + buffer_slice.stride * channel
        size_1 == buffer_slice.base.fragments[0].size
        ptr_2 == buffer_slice.base.fragments[1].pointer + buffer_slice.stride * channel
        size_2 == buffer_slice.base.fragments[1].size
    IN  <<[pointer |-> ptr_1, size |-> size_1], [pointer |-> ptr_2, size |-> size_2]>>

\* channel_data with the second fragment given the first fragment's size
ChannelData_size1(buffer_slice, channel) ==
    LET ptr_1 == buffer_slice.base.fragments[0].pointer + buffer_slice.stride * channel
        size_1 == buffer_slice.base.fragments[0].size
        ptr_2 == buffer_slice.base.fragments[1].pointer + buffer_slice.stride * channel
    IN  <<[pointer |-> ptr_1, size |-> size_1], [pointer |-> ptr_2, size |-> size_1]>>

\* SamplesData::channel_data(channel): the two byte slices of one channel.
ChannelData(buffer_slice, channel) ==
    LET ptr_1 == buffer_slice.base.fragments[0].pointer + buffer_slice.stride * channel
        size_1 == buffer_slice.base.fragments[0].size
        ptr_2 == buffer_slice.base.fragments[1].pointer + buffer_slice.stride * channel
        size_2 == buffer_slice.base.fragments[1].size
    IN  <<[pointer |-> ptr_1, size |-> size_1], [pointer |-> ptr_2, size |-> size_2]>>

\* The bytes a slice shows in the ring memory.
SliceBytes(mem, sl) == [k \in 1..sl.size |-> mem[sl.pointer + k - 1]]

\* From<&SamplesData> for OwnedSamplesData: per channel, fragment 1 then 2.
OwnedSamples(mem, buffer_slice) ==
    [channel \in 0..(buffer_slice.count - 1) |->
        LET d == ChannelData(buffer_slice, channel)
        IN  SliceBytes(mem, d[1]) \o SliceBytes(mem, d[2])]

\* The byte a writer with fill value b puts at offset k of channel c's region.
Pattern(b, c, k) == (b * 64 + c * 16 + k) % 256

\* The bytes the writer's view of the session shows, per channel.
WrittenSamples(mem, buffer_slice) ==
    [channel \in 0..(buffer_slice.count - 1) |->
        LET d == ChannelDataMut(buffer_slice, channel)
        IN  SliceBytes(mem, d[1]) \o SliceBytes(mem, d[2])]

\* Filling every channel's fragment 1, then fragment 2, with the pattern of b:
\* the cell at address a belongs to the slices of channel a \div stride.
FillSamples(mem, buffer_slice, b) ==
    [a \in DOMAIN mem |->
        LET c == a \div buffer_slice.stride
            d == ChannelDataMut(buffer_slice, c)
        IN  IF a >= d[1].pointer /\ a < d[1].pointer + d[1].size
            THEN Pattern(b, c, a - d[1].pointer)
            ELSE IF a >= d[2].pointer /\ a < d[2].pointer + d[2].size
            THEN Pattern(b, c, d[1].size + (a - d[2].pointer))
            ELSE mem[a]]

(***************************************************************************)
(* Readers (rust/mxl/src/grain/reader.rs, rust/mxl/src/samples/reader.rs). *)
(* The reads take &self and change nothing: each is an operator giving     *)
(* what a call returns when it returns in store state st. A blocking store *)
(* read of an index above the head waits, and returns with a timeout when  *)
(* the index is still above the head.                                      *)
(***************************************************************************)
\* The blocking flow_reader_get_grain / flow_reader_get_samples at its return.
Blocking(g) == IF g.status = "too_early" THEN [status |-> "timeout"] ELSE g

\* GrainReader::get_complete_grain(index, timeout). A pass of its loop that
\* finds validSlices /= totalSlices goes round again: "pending".
GetCompleteGrain(st, index) ==
    LET g == Blocking(StoreGetGrain(st, index))
    IN  IF g.status /= "ok" THEN [status |-> g.status]
        ELSE IF g.info.validSlices /= g.info.totalSlices THEN [status |-> "pending"]
        ELSE [status |-> "ok",
              payload |-> [k \in 1..g.info.grainSize |->
                              st.grains[g.payload_ptr].payload[k]],
              total_size |-> g.info.grainSize,
              flags |-> g.info.flags]

\* GrainReader::get_grain_non_blocking(index)
GetGrainNonBlocking(st, index) ==
    LET g == StoreGetGrain(st, index)
    IN  IF g.status /= "ok" THEN [status |-> g.status]
        ELSE [status |-> "ok",
              payload |-> [k \in 1..g.info.grainSize |->
                              st.grains[g.payload_ptr].payload[k]],
              total_size |-> g.info.grainSize,
              flags |-> g.info.flags]

\* SamplesReader::get_samples(index, count, timeout), then channel_data(ch) of
\* every channel.
GetSamples(st, index, count) ==
    LET g == Blocking(StoreGetSamples(st, index, count))
    IN  IF g.status /= "ok" THEN [status |-> g.status]
        ELSE [status |-> "ok",
              fragments |->
                  [c \in 0..(g.buffer_slice.count - 1) |->
                      LET d == ChannelData(g.buffer_slice, c)
                      IN  <<SliceBytes(st.samples, d[1]), SliceBytes(st.samples, d[2])>>]]

\* SamplesReader::get_samples_non_blocking(index, count)
GetSamplesNonBlocking(st, index, count) ==
    LET g == StoreGetSamples(st, index, count)
    IN  IF g.status /= "ok" THEN [status |-> g.status]
        ELSE [status |-> "ok", owned |-> OwnedSamples(st.samples, g.buffer_slice)]

SessInit ==
    [n |-> 0, index |-> 0, count |-> 0, ended |-> "none", filled |-> FALSE,
     calls |-> <<>>,
     preHead |-> 0 - 1, preView |-> [status |-> "too_early"], valid_slices |-> 0]

CommittedInit ==
    [index |-> 0, count |-> 0, validSlices |-> 0, filled |-> FALSE, data |-> <<>>]

(***************************************************************************)
(* Write sessions.                                                         *)
(* A writer opens its sessions one at a time and at non-decreasing         *)
(* indices (section 3: the logical index is non-decreasing per writer).    *)
(***************************************************************************)
\* GrainWriter::open_grain(index)
OpenGrain(i) ==
    /\ flowKind = "discrete"
    /\ access = NoAccess
    /\ i >= sess.index
    /\ sess.n < MaxSessions
    /\ store' = StoreOpenGrain(store, i)
    /\ access' = [kind |-> "grain",
                  grain_info |-> StoreGrainInfo(store, i),
                  payload_ptr |-> Slot(i),
                  committed_or_canceled |-> FALSE]
    /\ sess' = [n |-> sess.n + 1, index |-> i, count |-> 1,
                ended |-> "open", filled |-> FALSE,
                calls |-> <<>>, preHead |-> store.headIndex,
                preView |-> GetGrainNonBlocking(store, i), valid_slices |-> 0]
    /\ UNCHANGED <<flowKind, committed, el>>

\* GrainWriteAccess::payload_mut(), then fill(b) on the returned slice
PayloadMut(b) ==
    /\ access.kind = "grain"
    /\ store' = [store EXCEPT !.grains[access.payload_ptr].payload =
                    [k \in 1..access.grain_info.grainSize |-> b]]
    /\ sess' = [sess EXCEPT !.filled = TRUE]
    /\ UNCHANGED <<flowKind, access, committed, el>>

\* GrainWriteAccess::commit(valid_slices)
GrainCommit(valid_slices) ==
    /\ access.kind = "grain"
    /\ LET calls == GrainCommitCalls(access, valid_slices)
       IN  /\ store' = StoreCalls(store, calls)
           /\ sess' = [sess EXCEPT !.calls = calls,
                          !.valid_slices = valid_slices,
                          !.ended = IF GrainCommitOk(access, valid_slices)
                                    THEN "commit" ELSE "commit_rejected"]
    /\ committed' =
          IF GrainCommitOk(access, valid_slices)
          THEN [index |-> sess.index, count |-> 1, validSlices |-> valid_slices,
                filled |-> sess.filled,
                data |-> store.grains[access.payload_ptr].payload]
          ELSE committed
    /\ access' = NoAccess
    /\ UNCHANGED <<flowKind, el>>

\* GrainWriteAccess::cancel()
GrainCancel ==
    /\ access.kind = "grain"
    /\ LET calls == GrainCancelCalls(access)
       IN  /\ store' = StoreCalls(store, calls)
           /\ sess' = [sess EXCEPT !.calls = calls, !.ended = "cancel"]
    /\ access' = NoAccess
    /\ UNCHANGED <<flowKind, committed, el>>

\* The session goes out of scope with neither commit nor cancel called.
GrainDrop ==
    /\ access.kind = "grain"
    /\ LET calls == GrainDropCalls(access)
       IN  /\ store' = StoreCalls(store, calls)
           /\ sess' = [sess EXCEPT !.calls = calls, !.ended = "drop"]
    /\ access' = NoAccess
    /\ UNCHANGED <<flowKind, committed, el>>

\* SamplesWriter::open_samples(index, count)
OpenSamples(index, count) ==
    /\ flowKind = "continuous"
    /\ access = NoAccess
    /\ index >= sess.index
    /\ sess.n < MaxSessions
    /\ index + 1 >= count
    /\ store' = StoreOpenSamples(store, index, count)
    /\ access' = [kind |-> "samples",
                  buffer_slice |-> StoreSlice(index, count),
                  committed_or_canceled |-> FALSE]
    /\ sess' = [n |-> sess.n + 1, index |-> index, count |-> count,
                ended |-> "open", filled |-> FALSE,
                calls |-> <<>>, preHead |-> store.headIndex,
                preView |-> GetSamplesNonBlocking(store, index, count), valid_slices |-> 0]
    /\ UNCHANGED <<flowKind, committed, el>>

\* channel_data_mut(ch) for every channel, both fragments filled
SamplesFill(b) ==
    /\ access.kind = "samples"
    /\ store' = [store EXCEPT !.samples = FillSamples(store.samples, access.buffer_slice, b)]
    /\ sess' = [sess EXCEPT !.filled = TRUE]
    /\ UNCHANGED <<flowKind, access, committed, el>>

\* SamplesWriteAccess::commit()
SamplesCommit ==
    /\ access.kind = "samples"
    /\ LET calls == SamplesCommitCalls(access)
       IN  /\ store' = StoreCalls(store, calls)
           /\ sess' = [sess EXCEPT !.calls = calls, !.ended = "commit"]
    /\ committed' = [index |-> sess.index, count |-> sess.count, validSlices |-> 0,
                     filled |-> sess.filled,
                     data |-> WrittenSamples(store.samples, access.buffer_slice)]
    /\ access' = NoAccess
    /\ UNCHANGED <<flowKind, el>>

\* SamplesWriteAccess::cancel()
SamplesCancel ==
    /\ access.kind = "samples"
    /\ LET calls == SamplesCancelCalls(access)
       IN  /\ store' = StoreCalls(store, calls)
           /\ sess' = [sess EXCEPT !.calls = calls, !.ended = "cancel"]
    /\ access' = NoAccess
    /\ UNCHANGED <<flowKind, committed, el>>

\* The session goes out of scope with neither commit nor cancel called.
SamplesDrop ==
    /\ access.kind = "samples"
    /\ LET calls == SamplesDropCalls(access)
       IN  /\ store' = StoreCalls(store, calls)
           /\ sess' = [sess EXCEPT !.calls = calls, !.ended = "drop"]
    /\ access' = NoAccess
    /\ UNCHANGED <<flowKind, committed, el>>

(***************************************************************************)
(* Properties of the write sessions and of the reads.                      *)
(***************************************************************************)
Closed == {"commit", "commit_rejected", "cancel", "drop"}
CommitOps == {"commit_grain", "commit_samples"}
CancelOps == {"cancel_grain", "cancel_samples"}

\* What a non-blocking read of the session's unit returns in store state st.
SessionView(st) ==
    IF flowKind = "discrete" THEN GetGrainNonBlocking(st, sess.index)
    ELSE GetSamplesNonBlocking(st, sess.index, sess.count)

\* C1: every write session issues exactly one closing call to the store over
\* its life: the commit when commit() was called, the cancel when cancel() was
\* called, one implicit cancel when it was discarded without either.
C1_OneClosingCall ==
    sess.ended \in Closed =>
        /\ Len(sess.calls) = 1
        /\ sess.ended = "commit" => sess.calls[1].op \in CommitOps
        /\ sess.ended \in {"cancel", "drop"} => sess.calls[1].op \in CancelOps

\* C25: a session whose commit(valid_slices) was rejected because
\* valid_slices exceeds the grain's total slices is rolled back: a cancel
\* reaches the store when the session is discarded.
C25_RejectedCommitCancels ==
    sess.ended = "commit_rejected" =>
        \E k \in 1..Len(sess.calls) : sess.calls[k].op \in CancelOps

\* C2: after a session was cancelled or discarded without commit, the head is
\* what it was before the session was opened, and a read at the session's
\* index is too early or returns what it returned before the session.
C2_CancelInvisible ==
    sess.ended \in {"cancel", "drop"} =>
        /\ store.headIndex = sess.preHead
        /\ \/ SessionView(store).status = "too_early"
           \/ SessionView(store) = sess.preView

\* C3: after a successful commit of a grain at index i, or of a sample batch
\* ending at i, the head is at least i and a read at i is not too early.
C3_CommitVisible ==
    sess.ended = "commit" =>
        /\ store.headIndex >= sess.index
        /\ SessionView(store).status /= "too_early"

C3_Witness ==
    /\ sess.ended = "commit"
    /\ sess.index > 0
    /\ sess.preView.status = "too_early"

\* C4: commit(valid_slices) with valid_slices > total_slices fails and issues
\* no commit to the store, the head stays and a grain that was not readable
\* stays unreadable; with valid_slices <= total_slices the commit is issued
\* with that count of valid slices.
C4_CommitValidSlices ==
    /\ sess.ended = "commit_rejected" =>
           /\ sess.valid_slices > TotalSlices
           /\ \A k \in 1..Len(sess.calls) : sess.calls[k].op \notin CommitOps
           /\ store.headIndex = sess.preHead
           /\ sess.preView.status /= "ok" => SessionView(store).status /= "ok"
    /\ (sess.ended = "commit" /\ flowKind = "discrete") =>
           /\ sess.valid_slices <= TotalSlices
           /\ \E k \in 1..Len(sess.calls) :
                  /\ sess.calls[k].op = "commit_grain"
                  /\ sess.calls[k].info.validSlices = sess.valid_slices
           /\ store.grains[Slot(sess.index)].info.validSlices = sess.valid_slices

C4_Witness ==
    /\ sess.ended = "commit_rejected"
    /\ sess.valid_slices = TotalSlices + 1
    /\ sess.preView.status = "too_early"

\* C5: a grain written and committed with all slices valid at index i is read
\* back by get_complete_grain(i), while i is inside the retention window,
\* with the payload that was committed and the declared grain size.
C5_GrainRoundTrip ==
    (flowKind = "discrete" /\ committed.count = 1 /\ committed.filled
        /\ committed.validSlices = TotalSlices) =>
        LET r == GetCompleteGrain(store, committed.index)
        IN  r.status = "ok" =>
                /\ r.payload = committed.data
                /\ r.total_size = GrainSize

\* C6: a sample batch opened with open_samples(index, count), filled and
\* committed is read back by get_samples(index, count): for every channel the
\* two fragments, concatenated, are the bytes written for that channel.
C6_SamplesRoundTrip ==
    (flowKind = "continuous" /\ committed.count > 0 /\ committed.filled) =>
        LET r == GetSamples(store, committed.index, committed.count)
        IN  r.status = "ok" =>
                \A c \in 0..(Channels - 1) :
                    r.fragments[c][1] \o r.fragments[c][2] = committed.data[c]

\* The range of count samples ending at index crosses the physical end of
\* the ring.
CrossesWrap(index, count) ==
    ((index + 1 - count) % BufferLength) + count > BufferLength

\* C7: for every successful read of count samples and every channel, the
\* lengths of the two fragments add up to count * sample width, and the
\* second fragment is non-empty only when the range crosses the wrap.
C7_FragmentSum ==
    \A index \in 0..MaxSampleIndex : \A count \in 1..MaxCount :
        (flowKind = "continuous" /\ count <= index + 1) =>
            LET r == GetSamples(store, index, count)
            IN  r.status = "ok" =>
                    \A c \in 0..(Channels - 1) :
                        /\ Len(r.fragments[c][1]) + Len(r.fragments[c][2])
                               = count * SampleWidth
                        /\ Len(r.fragments[c][2]) > 0 => CrossesWrap(index, count)

C7_Witness ==
    /\ flowKind = "continuous"
    /\ \E index \in 0..MaxSampleIndex : \E count \in 1..MaxCount :
           /\ count <= index + 1
           /\ GetSamples(store, index, count).status = "ok"
           /\ Len(GetSamples(store, index, count).fragments[0][2]) > 0

Init ==
    /\ flowKind \in {"discrete", "continuous"}
    /\ store = StoreInit
    /\ access = NoAccess
    /\ sess = SessInit
    /\ committed = CommittedInit
    /\ el = NoElement

Next ==
    \/ \E i \in 0..MaxIndex : OpenGrain(i)
    \/ \E b \in 1..MaxFill : PayloadMut(b)
    \/ \E v \in 0..(TotalSlices + 1) : GrainCommit(v)
    \/ GrainCancel
    \/ GrainDrop
    \/ \E i \in 0..MaxSampleIndex : \E n \in 1..MaxCount : OpenSamples(i, n)
    \/ \E b \in 1..MaxFill : SamplesFill(b)
    \/ SamplesCommit
    \/ SamplesCancel
    \/ SamplesDrop

Spec == Init /\ [][Next]_vars
(***************************************************************************)
(* The video sink (rust/gst-mxl-rs/src/mxlsink/render_video.rs).           *)
(* Time is counted in clock ticks; the MXL clock (now) and the pipeline's  *)
(* running time (running) advance together.                                *)
(***************************************************************************)
TicksPerUnit == 2   \* clock ticks in one grain or sample period (the flow's rate)
MaxRunning == 3     \* largest running time of the pipeline
MaxPts == MaxRunning + (GrainCount + 2) * TicksPerUnit
NoPts == 0 - 1      \* buffer.pts() is None
NoIndex == 0 - 1    \* no index yet (next_write_index is None)
NoInitialTime == [set |-> FALSE, mxl_to_gst_offset |-> 0]

\* MxlInstance::timestamp_to_index(timestamp, rate)
timestamp_to_index(timestamp) == timestamp \div TicksPerUnit

\* MxlInstance::get_current_index(rate)
get_current_index(now) == timestamp_to_index(now)

\* the clamp taken from grain_count ahead on
video_index_clamps_at_count(pts, current_index, mxl_to_gst_offset, grain_count) ==
    IF pts = NoPts THEN current_index
    ELSE LET mxl_pts == pts + mxl_to_gst_offset
             index == timestamp_to_index(mxl_pts)
         IN  IF index > current_index /\ index - current_index >= grain_count
             THEN current_index + grain_count - 1
             ELSE index

\* The target grain index of render_video::video for a buffer with pts.
video_index(pts, current_index, mxl_to_gst_offset, grain_count) ==
    IF pts = NoPts THEN current_index
    ELSE LET mxl_pts == pts + mxl_to_gst_offset
             index == timestamp_to_index(mxl_pts)
         IN  IF index > current_index /\ index - current_index > grain_count
             THEN current_index + grain_count - 1
             ELSE index

\* render_video::commit_buffer on a store where open_grain succeeds: the
\* buffer's bytes are copied over the first min(payload, data) bytes of the
\* slot and the grain is committed with all its slices.
commit_buffer(st, data, index) ==
    LET opened == StoreOpenGrain(st, index)
        a == [kind |-> "grain", grain_info |-> StoreGrainInfo(st, index),
              payload_ptr |-> Slot(index), committed_or_canceled |-> FALSE]
        payload == st.grains[a.payload_ptr].payload
        copy_len == Min(Len(payload), Len(data))
        written == [opened EXCEPT !.grains[a.payload_ptr].payload =
                       [k \in 1..Len(payload) |->
                           IF k <= copy_len THEN data[k] ELSE payload[k]]]
        total_slices == a.grain_info.totalSlices
    IN  StoreCalls(written, GrainCommitCalls(a, total_slices))

\* render_video::video(mxlsink, state, buffer). open_ok: whether the store
\* accepts the open_grain of this call.
video(pts, data, open_ok) ==
    /\ el.kind = "video_sink"
    /\ LET current_index == get_current_index(el.now)
           gst_time == el.running
           initial_info == IF el.initial_time.set THEN el.initial_time
                           ELSE [set |-> TRUE, mxl_to_gst_offset |-> el.now - gst_time]
           index == video_index(pts, current_index, initial_info.mxl_to_gst_offset,
                                el.grain_count)
       IN  /\ store' = IF open_ok THEN commit_buffer(store, data, index) ELSE store
           /\ el' = [el EXCEPT !.initial_time = initial_info,
                               !.grain_index = IF open_ok THEN index + 1 ELSE index,
                               !.current_index = current_index,
                               !.index = index,
                               !.pts = pts,
                               !.first_offset = initial_info.mxl_to_gst_offset,
                               !.opened = TRUE,
                               !.last_open = IF open_ok THEN index ELSE @,
                               !.prev_open = IF open_ok THEN el.last_open ELSE @,
                               !.result = IF open_ok THEN "ok" ELSE "error"]
    /\ UNCHANGED <<flowKind, access, sess, committed>>

\* Time passes.
Tick ==
    /\ el.kind \in {"video_sink", "audio_src", "video_src"}
    /\ el.running < (IF el.kind = "video_src" THEN el.until ELSE MaxRunning)
    /\ el' = [el EXCEPT !.now = @ + 1, !.running = @ + 1]
    /\ UNCHANGED <<flowKind, store, access, sess, committed>>

\* init_state_with_video: the sink starts on a fresh discrete flow; the MXL
\* clock is at or ahead of the pipeline's running time.
VideoInit ==
    /\ flowKind = "discrete"
    /\ store = StoreInit
    /\ access = NoAccess
    /\ sess = SessInit
    /\ committed = CommittedInit
    /\ \E now \in 0..TicksPerUnit :
           el = [kind |-> "video_sink", now |-> now, running |-> 0,
                 initial_time |-> NoInitialTime,
                 grain_index |-> get_current_index(now), grain_count |-> GrainCount,
                 current_index |-> 0, index |-> 0, pts |-> NoPts,
                 first_offset |-> 0, opened |-> FALSE,
                 last_open |-> NoIndex, prev_open |-> NoIndex,
                 result |-> "none"]

VideoNext ==
    \/ Tick
    \/ \E pts \in {NoPts} \cup 0..MaxPts : \E len \in 0..(GrainSize + 1) :
           \E open_ok \in BOOLEAN :
               video(pts, [k \in 1..len |-> 1], open_ok)

VideoSpec == VideoInit /\ [][VideoNext]_vars

\* C8: for every buffer rendered by the video sink, with or without a
\* timestamp, the index passed to open_grain is at most the current ring
\* index sampled in that call plus grain_count - 1.
C8_ClampBound ==
    (el.kind = "video_sink" /\ el.opened) =>
        el.index <= el.current_index + el.grain_count - 1

\* C20: the indices at which the video sink opens its grains, from buffers
\* with and without a PTS in any order, never go back.
C20_OpenIndicesMonotone ==
    (el.kind = "video_sink" /\ el.prev_open /= NoIndex) =>
        el.prev_open <= el.last_open

\* C40: a call of the video sink for a buffer without a timestamp, made
\* while the writer's index (grain_index, one past its last target) is more
\* than half the ring ahead of the current ring index, opens no grain and
\* commits nothing: the store is as it was before the call.
C40_SkipWhenAhead ==
    [][(/\ el.kind = "video_sink"
        /\ el'.pts = NoPts
        /\ 2 * (el.grain_index - get_current_index(el.now)) > el.grain_count)
       => store' = store]_vars

\* The pipeline is paused or the two clocks drift: the MXL clock advances,
\* the running time does not.
Drift ==
    /\ el.kind = "video_sink"
    /\ el.now - el.running < TicksPerUnit
    /\ el' = [el EXCEPT !.now = @ + 1]
    /\ UNCHANGED <<flowKind, store, access, sess, committed>>

\* The video sink fed whole frames, with the clocks drifting apart.
VideoIndexNext ==
    \/ Tick
    \/ Drift
    \/ \E pts \in {NoPts} \cup 0..MaxPts : \E open_ok \in BOOLEAN :
           video(pts, [k \in 1..GrainSize |-> 1], open_ok)

VideoIndexSpec == VideoInit /\ [][VideoIndexNext]_vars

MaxSamples == 5      \* largest samples_per_buffer of one rendered buffer
MaxWriteIndex == 12  \* largest write index the sink reaches
\* Buffer sizes in bytes: whole frames of all channels, or one byte more.
SrcLens == {n * Channels * SampleWidth + r : n \in 0..MaxSamples, r \in 0..1}

\* chunk limit one above half the ring
chunk_samples_above(remaining, max_chunk) == Min(remaining, max_chunk + 1)

\* compute_samples_per_channel: chunk_samples = remaining.min(max_chunk)
chunk_samples(remaining, max_chunk) == Min(remaining, max_chunk)

\* The while loop of render_audio::audio from its k-th pass on. fail_at: the
\* pass whose open_samples the store refuses (0: none). The result is the
\* store, the write index, the sizes of the chunks committed and whether the
\* loop ran to its end.
RECURSIVE audio_loop(_, _, _, _, _, _, _)
audio_loop(st, write_index, remaining, max_chunk, k, fail_at, chunks) ==
    IF ~(remaining > 0)
    THEN [store |-> st, write_index |-> write_index, chunks |-> chunks, ok |-> TRUE]
    ELSE IF k = fail_at
    THEN [store |-> st, write_index |-> write_index, chunks |-> chunks, ok |-> FALSE]
    ELSE LET n == chunk_samples(remaining, max_chunk)
             a == [kind |-> "samples", buffer_slice |-> StoreSlice(write_index, n),
                   committed_or_canceled |-> FALSE]
             opened == StoreOpenSamples(st, write_index, n)
             written == [opened EXCEPT
                            !.samples = FillSamples(opened.samples, a.buffer_slice, 1)]
             done == StoreCalls(written, SamplesCommitCalls(a))
         IN  audio_loop(done, write_index + n, remaining - n, max_chunk, k + 1,
                        fail_at, Append(chunks, n))

\* render_audio::audio(state, buffer) for a buffer of src_len bytes.
audio(src_len, fail_at) ==
    /\ el.kind = "audio_sink"
    /\ LET bytes_per_sample == SampleWidth
           samples_per_buffer == src_len \div (Channels * bytes_per_sample)
           buffer_length == BufferLength
           first == el.next_write_index = NoIndex
           write_index == IF first THEN get_current_index(el.now)
                          ELSE el.next_write_index
           max_chunk == buffer_length \div 2
       IN  /\ max_chunk >= 1
           /\ write_index + samples_per_buffer <= MaxWriteIndex
           /\ el.total + samples_per_buffer <= MaxWriteIndex
           /\ \E r \in {audio_loop(store, write_index, samples_per_buffer,
                                   max_chunk, 1, fail_at, <<>>)} :
                  /\ store' = r.store
                  /\ el' = [el EXCEPT !.next_write_index =
                                          IF r.ok THEN r.write_index ELSE write_index,
                                      !.batch_size = samples_per_buffer,
                                      !.before = write_index,
                                      !.baseline = IF first THEN write_index ELSE @,
                                      !.total = @ + (r.write_index - write_index),
                                      !.chunks = r.chunks,
                                      !.result = IF r.ok THEN "ok" ELSE "error"]
    /\ UNCHANGED <<flowKind, access, sess, committed>>

\* init_state_with_audio: the sink starts on a fresh continuous flow with no
\* write index yet.
AudioSinkInit ==
    /\ flowKind = "continuous"
    /\ store = StoreInit
    /\ access = NoAccess
    /\ sess = SessInit
    /\ committed = CommittedInit
    /\ \E now \in 0..(2 * TicksPerUnit) :
           el = [kind |-> "audio_sink", now |-> now, next_write_index |-> NoIndex,
                 batch_size |-> 0, before |-> 0, chunks |-> <<>>,
                 baseline |-> NoIndex, total |-> 0,
                 result |-> "none"]

AudioSinkNext ==
    \E src_len \in SrcLens : \E fail_at \in 0..2 : audio(src_len, fail_at)

AudioSinkSpec == AudioSinkInit /\ [][AudioSinkNext]_vars

RECURSIVE SumSeq(_)
SumSeq(q) == IF q = <<>> THEN 0 ELSE Head(q) + SumSeq(Tail(q))

CeilDiv(n, m) == (n + m - 1) \div m

\* C10: a write of N samples into a ring of length L with chunk limit
\* M = L div 2 >= 1 commits exactly ceil(N / M) chunks, each of at most M
\* samples, whose sizes add up to N, and leaves the writer's index at its
\* value before the call plus N.
C10_Chunking ==
    (el.kind = "audio_sink" /\ el.result = "ok") =>
        LET N == el.batch_size
            M == BufferLength \div 2
        IN  /\ Len(el.chunks) = CeilDiv(N, M)
            /\ \A k \in 1..Len(el.chunks) : el.chunks[k] >= 1 /\ el.chunks[k] <= M
            /\ SumSeq(el.chunks) = N
            /\ el.next_write_index = el.before + N

C10_Witness ==
    /\ el.kind = "audio_sink"
    /\ el.result = "ok"
    /\ Len(el.chunks) >= 3
    /\ el.chunks[Len(el.chunks)] < BufferLength \div 2
    /\ el.next_write_index = el.before + el.batch_size

\* C29: after any sequence of calls of the audio sink, failed ones included,
\* the next write index is the index taken from the clock at the first write
\* plus the number of samples committed so far.
C29_IndexIsBaselinePlusCommitted ==
    (el.kind = "audio_sink" /\ el.next_write_index # NoIndex) =>
        el.next_write_index = el.baseline + el.total

(***************************************************************************)
(* The while loop of render_audio::audio pass by pass, on a flow whose     *)
(* ring length is any value from 0 up.  Of the store, the open write and   *)
(* the head are followed; the bytes written are those of audio_loop.       *)
(***************************************************************************)
\* audio up to its loop: the samples of the buffer, the write index and the
\* chunk limit.
audio_enter(src_len, buffer_length) ==
    /\ el.kind = "audio_pass"
    /\ el.pc = "idle"
    /\ LET samples_per_buffer == src_len \div (Channels * SampleWidth)
           write_index == IF el.next_write_index = NoIndex
                          THEN get_current_index(el.now)
                          ELSE el.next_write_index
       IN  /\ write_index + samples_per_buffer <= MaxWriteIndex
           /\ el' = [el EXCEPT !.pc = "loop",
                               !.next_write_index = write_index,
                               !.write_index = write_index,
                               !.max_chunk = buffer_length \div 2,
                               !.remaining = samples_per_buffer,
                               !.passed = FALSE,
                               !.result = "none"]
    /\ UNCHANGED <<flowKind, store, access, sess, committed>>

\* One test of `while remaining > 0` and, when it holds, one pass of the
\* body. open_ok: whether the store accepts the open_samples of the pass.
audio_pass(open_ok) ==
    /\ el.kind = "audio_pass"
    /\ el.pc = "loop"
    /\ IF ~(el.remaining > 0)
       THEN /\ el' = [el EXCEPT !.pc = "idle", !.next_write_index = el.write_index,
                                !.result = "ok"]
            /\ UNCHANGED store
       ELSE IF ~open_ok
       THEN /\ el' = [el EXCEPT !.pc = "idle", !.result = "error"]
            /\ UNCHANGED store
       ELSE \E n \in {chunk_samples(el.remaining, el.max_chunk)} :
            /\ store' = StoreCommitSamples(StoreOpenSamples(store, el.write_index, n))
            /\ el' = [el EXCEPT !.write_index = @ + n,
                                !.remaining = @ - n,
                                !.before_pass = el.remaining,
                                !.passed = TRUE]
    /\ UNCHANGED <<flowKind, access, sess, committed>>

AudioPassInit ==
    /\ flowKind = "continuous"
    /\ store = StoreInit
    /\ access = NoAccess
    /\ sess = SessInit
    /\ committed = CommittedInit
    /\ \E now \in 0..(2 * TicksPerUnit) :
           el = [kind |-> "audio_pass", pc |-> "idle", now |-> now,
                 next_write_index |-> NoIndex, write_index |-> 0, max_chunk |-> 0,
                 remaining |-> 0, before_pass |-> 0, passed |-> FALSE,
                 result |-> "none"]

AudioPassNext ==
    \/ \E src_len \in SrcLens : \E buffer_length \in 0..BufferLength :
           audio_enter(src_len, buffer_length)
    \/ \E open_ok \in BOOLEAN : audio_pass(open_ok)

AudioPassSpec == AudioPassInit /\ [][AudioPassNext]_vars

\* C30: the chunking loop of the audio sink terminates for every buffer size
\* and every ring length, ring lengths below 2 included: every pass of its
\* body leaves fewer samples to write than it found.
C30_PassConsumes ==
    (el.kind = "audio_pass" /\ el.pc = "loop" /\ el.passed) =>
        el.remaining < el.before_pass
(***************************************************************************)
(* The audio source (rust/gst-mxl-rs/src/mxlsrc/create_audio.rs).          *)
(* One call of create_audio is two steps: create_audio_start, up to the    *)
(* blocking read, and create_audio_read, the return of the read and what   *)
(* follows it. The producer, another process, may commit in between.       *)
(***************************************************************************)
DEFAULT_BATCH_SIZE == 48
MaxHint == 3        \* largest max_commit_batch_size_hint of the flow (0: not set)
MaxHead == 8        \* largest head index the producer reaches
MaxAdvance == 3     \* largest number of samples the producer commits at once
MaxBatches == 3     \* largest batch_counter

saturating_sub(a, b) == IF a > b THEN a - b ELSE 0

\* MxlInstance::index_to_timestamp(index, rate)
index_to_timestamp(index) == index * TicksPerUnit

\* FlowRuntimeInfo::head_index of a flow the producer has committed to
head_index(st) == st.headIndex

\* create_audio: batch_size
batch_size(bufferLength, max_commit_batch_size_hint) ==
    Min(Min(DEFAULT_BATCH_SIZE, bufferLength \div 2), max_commit_batch_size_hint)

\* jump to head - 3 x batch
define_cushion_3x(head, batch) ==
    LET cushion == batch * 3
    IN  saturating_sub(head, cushion)

define_cushion(head, batch) ==
    LET cushion == batch * 2
    IN  saturating_sub(head, cushion)

\* catch_up: the index the reader jumps to
catch_up(head, batch) == define_cushion(head, batch)

\* is_reader_late: whether the index is behind the oldest valid sample
is_reader_late(head, batch, ring, index) ==
    LET oldest_valid == saturating_sub(head, saturating_sub(ring, batch))
    IN  index < oldest_valid

\* audio_state_init
audio_state_init(e, ts_gst, batch, head) ==
    IF ~e.audio_state.is_initialized
    THEN [e EXCEPT !.initial_info = [mxl_index |-> e.now, gst_time |-> ts_gst],
                   !.audio_state.index = saturating_sub(head, batch),
                   !.audio_state.is_initialized = TRUE,
                   !.audio_state.batch_counter = 0]
    ELSE e

\* resync_state that leaves the batch counter running
resync_state_keeps_counter(e, ts_gst) ==
    [e EXCEPT !.initial_info = [mxl_index |-> e.now, gst_time |-> ts_gst],
              !.audio_state.next_discont = TRUE]

\* resync_state
resync_state(e, ts_gst) ==
    [e EXCEPT !.initial_info = [mxl_index |-> e.now, gst_time |-> ts_gst],
              !.audio_state.batch_counter = 0,
              !.audio_state.next_discont = TRUE]

\* compute_batch_duration
compute_batch_duration(index, batch) ==
    index_to_timestamp(index + batch) - index_to_timestamp(index)

\* compute_pts without the forward correction
compute_pts_uncorrected(batch, batch_counter, ts_gst, gst_time) ==
    [pts |-> gst_time + batch_counter * (batch * TicksPerUnit), gst_time |-> gst_time]

\* compute_pts: the buffer's PTS and the adjusted initial_info.gst_time
compute_pts(batch, batch_counter, ts_gst, gst_time) ==
    LET batch_duration_ns == batch * TicksPerUnit
        pts == gst_time + batch_counter * batch_duration_ns
    IN  IF pts < ts_gst
        THEN [pts |-> ts_gst, gst_time |-> gst_time + (ts_gst - pts)]
        ELSE [pts |-> pts, gst_time |-> gst_time]
\* create_audio up to the read: the flow info is sampled, the state is
\* initialised on the first call, and a reader found late against the sampled
\* head jumps forward and resynchronises.
create_audio_start ==
    /\ el.kind = "audio_src"
    /\ el.pc = "idle"
    /\ el.audio_state.batch_counter < MaxBatches
    /\ LET ring == BufferLength
           batch == batch_size(BufferLength, el.hint)
           ts_gst == el.running
           head == head_index(store)
           e1 == audio_state_init(el, ts_gst, batch, head)
           late == is_reader_late(head, batch, ring, e1.audio_state.index)
           e2 == IF late
                 THEN resync_state(
                          [e1 EXCEPT !.audio_state.index = catch_up(head, batch)],
                          ts_gst)
                 ELSE e1
       IN  el' = [e2 EXCEPT !.pc = "read", !.head = head, !.batch = batch,
                            !.ts_gst = ts_gst, !.late = late,
                            !.pre = [index |-> e1.audio_state.index,
                                     next_discont |-> e1.audio_state.next_discont,
                                     batch_counter |-> e1.audio_state.batch_counter,
                                     initial_info |-> e1.initial_info,
                                     now |-> el.now],
                            !.pending = late \/ el.pending]
    /\ UNCHANGED <<flowKind, store, access, sess, committed>>

\* the counters advanced by one sample instead of one batch
advance_counters_one_sample(audio_state, batch) ==
    [audio_state EXCEPT !.batch_counter = @ + 1, !.index = @ + 1]

\* audio_state.batch_counter += 1; audio_state.index += batch
advance_counters(audio_state, batch) ==
    [audio_state EXCEPT !.batch_counter = @ + 1, !.index = @ + batch]

\* create_audio from the return of get_samples(index, batch, timeout) on:
\* no data on an error of the read, else a buffer with its PTS and its
\* discontinuity flag, and the counters advance.
create_audio_read ==
    /\ el.kind = "audio_src"
    /\ el.pc = "read"
    /\ LET samples == GetSamples(store, el.audio_state.index, el.batch)
           read_batch_duration == compute_batch_duration(el.audio_state.index, el.batch)
           p == compute_pts(el.batch, el.audio_state.batch_counter, el.ts_gst,
                            el.initial_info.gst_time)
           is_discont == el.audio_state.next_discont
       IN  IF samples.status /= "ok"
           THEN el' = [el EXCEPT !.pc = "idle", !.result = "NoDataCreated"]
           ELSE el' = [el EXCEPT
                          !.pc = "idle",
                          !.result = "DataCreated",
                          !.initial_info =
                              [mxl_index |-> el.initial_info.mxl_index + read_batch_duration,
                               gst_time |-> p.gst_time],
                          !.audio_state =
                              advance_counters([@ EXCEPT !.next_discont = FALSE],
                                               el.batch),
                          !.buffer = [pts |-> p.pts, discont |-> is_discont,
                                      after_correction |-> el.pending,
                                      first |-> ~el.produced,
                                      prev_pts |-> IF el.produced THEN el.buffer.pts
                                                   ELSE NoPts],
                          !.pending = FALSE,
                          !.produced = TRUE]
    /\ UNCHANGED <<flowKind, store, access, sess, committed>>

\* The producer of the flow commits n more samples.
producer_commit(n) ==
    /\ el.kind \in {"audio_src", "audio_wait"}
    /\ store.headIndex + n <= MaxHead
    /\ store' = StoreCommitSamples(StoreOpenSamples(store, store.headIndex + n, n))
    /\ UNCHANGED <<flowKind, access, sess, committed, el>>

\* The source starts on a continuous flow the producer has committed to; the
\* flow's batch size hint is any value, 0 when the writer set none.
AudioSrcInit ==
    /\ flowKind = "continuous"
    /\ \E head \in 0..MaxAdvance : store = [StoreInit EXCEPT !.headIndex = head]
    /\ access = NoAccess
    /\ sess = SessInit
    /\ committed = CommittedInit
    /\ \E hint \in 0..MaxHint : \E next_discont \in BOOLEAN :
           el = [kind |-> "audio_src", hint |-> hint, pc |-> "idle",
                 now |-> TicksPerUnit, running |-> 0,
                 initial_info |-> [mxl_index |-> 0, gst_time |-> 0],
                 audio_state |-> [batch_counter |-> 0, is_initialized |-> FALSE,
                                  index |-> 0, next_discont |-> next_discont],
                 head |-> 0, batch |-> 0, ts_gst |-> 0, late |-> FALSE,
                 pre |-> [index |-> 0, next_discont |-> next_discont,
                          batch_counter |-> 0,
                          initial_info |-> [mxl_index |-> 0, gst_time |-> 0],
                          now |-> 0],
                 result |-> "none",
                 buffer |-> [pts |-> 0, discont |-> FALSE,
                             after_correction |-> FALSE, first |-> FALSE,
                             prev_pts |-> NoPts],
                 pending |-> FALSE, produced |-> FALSE]

AudioSrcNext ==
    \/ create_audio_start
    \/ create_audio_read
    \/ \E n \in 1..MaxAdvance : producer_commit(n)
    \/ Tick

AudioSrcSpec == AudioSrcInit /\ [][AudioSrcNext]_vars

\* C9: when the audio source finds its index behind the retention window,
\* the corrected index lies in [head - ring length, head] for the head that
\* was sampled, and the next buffer produced carries the discontinuity flag;
\* a buffer produced with no correction since the buffer before it carries
\* no flag.
C9_CatchUp ==
    el.kind = "audio_src" =>
        /\ (el.pc = "read" /\ el.late) =>
               /\ el.audio_state.index >= el.head - BufferLength
               /\ el.audio_state.index <= el.head
               /\ el.audio_state.next_discont
        /\ el.produced =>
               /\ el.buffer.after_correction => el.buffer.discont
               /\ (~el.buffer.after_correction /\ ~el.buffer.first) =>
                      ~el.buffer.discont

C9_Witness ==
    /\ el.kind = "audio_src"
    /\ el.produced
    /\ el.buffer.after_correction
    /\ el.buffer.discont
    /\ ~el.buffer.first
    /\ el.head > BufferLength

\* What the lateness check of a call leaves behind, given the index it jumps
\* to: late exactly when the index was below head - (ring - batch); then the
\* index is the target, the discontinuity flag is set, and the baseline and
\* the batch counter restart at the moment of the call; otherwise nothing
\* is changed.
LatenessCheck(target) ==
    /\ el.late <=> el.pre.index < el.head - (BufferLength - el.batch)
    /\ el.late =>
          /\ el.audio_state.index = target
          /\ el.audio_state.next_discont
          /\ el.initial_info = [mxl_index |-> el.pre.now, gst_time |-> el.ts_gst]
          /\ el.audio_state.batch_counter = 0
    /\ ~el.late =>
          /\ el.audio_state.index = el.pre.index
          /\ el.audio_state.next_discont = el.pre.next_discont
          /\ el.initial_info = el.pre.initial_info
          /\ el.audio_state.batch_counter = el.pre.batch_counter

\* C32: right after a catch-up the corrected index is at or above
\* head - (ring length - batch), for the head the call sampled, so that the
\* lateness test would not fire again for that head.
C32_CatchUpCuresLateness ==
    (el.kind = "audio_src" /\ el.pc = "read" /\ el.late) =>
        /\ el.audio_state.index >= el.head - (BufferLength - el.batch)
        /\ ~is_reader_late(el.head, el.batch, BufferLength, el.audio_state.index)

\* C34: each buffer the audio source produces has a PTS at or after the PTS
\* of the buffer it produced before, with the clock never going back, also
\* when a catch-up reset the baseline and the batch counter in between.
C34_AudioPtsMonotone ==
    (el.kind = "audio_src" /\ el.produced /\ el.buffer.prev_pts /= NoPts) =>
        el.buffer.prev_pts <= el.buffer.pts

\* The return of a read in the audio source: with data, the index has
\* advanced by the batch and the batch counter by one; with no data, index,
\* counter and the last buffer are as they were.
AudioReadStep ==
    (el.kind = "audio_src" /\ el.pc = "read" /\ el'.pc = "idle") =>
        IF el'.result = "DataCreated"
        THEN /\ el'.audio_state.index = el.audio_state.index + el.batch
             /\ el'.audio_state.batch_counter = el.audio_state.batch_counter + 1
             /\ el'.produced
        ELSE /\ el'.result = "NoDataCreated"
             /\ el'.audio_state.index = el.audio_state.index
             /\ el'.audio_state.batch_counter = el.audio_state.batch_counter
             /\ el'.buffer = el.buffer
             /\ el'.produced = el.produced

\* The start of a call of an initialised audio source that is not late
\* changes neither the index nor the counter.
AudioStartStep ==
    (/\ el.kind = "audio_src"
     /\ el.pc = "idle"
     /\ el'.pc = "read"
     /\ el.audio_state.is_initialized
     /\ ~el'.late) =>
        /\ el'.audio_state.index = el.audio_state.index
        /\ el'.audio_state.batch_counter = el.audio_state.batch_counter

\* C35: a successful read of the audio source advances the index by exactly
\* the batch and the batch counter by exactly one; a call that ends with no
\* data advances neither, apart from a catch-up jump, and produces no
\* buffer.
C35_ReadAdvances == [][AudioReadStep /\ AudioStartStep]_vars

C35_Witness ==
    /\ el.kind = "audio_src"
    /\ el.pc = "idle"
    /\ el.result = "NoDataCreated"
    /\ el.produced
    /\ el.batch > 1
    /\ el.audio_state.batch_counter > 0
    /\ el.audio_state.index = el.pre.index

\* C36: the batch size the audio source selects is at least 1 for every
\* flow, also when the producer's batch size hint is 0 (not set), so that a
\* successful read advances the index by a positive number of samples.
C36_BatchPositive ==
    (el.kind = "audio_src" /\ el.pc = "read") => el.batch >= 1

\* C28 as stated: a late reader's index becomes head - 2 x batch, whatever
\* the head.
C28_JumpToHeadMinusTwoBatches ==
    (el.kind = "audio_src" /\ el.pc = "read") =>
        LatenessCheck(el.head - 2 * el.batch)

\* C28: a late reader's index becomes head - 2 x batch, or 0 when the head is
\* below 2 x batch; the flag, the baseline and the batch counter are reset;
\* a reader that is not late has none of them changed.
C28_JumpSaturating ==
    (el.kind = "audio_src" /\ el.pc = "read") =>
        LatenessCheck(IF el.head >= 2 * el.batch THEN el.head - 2 * el.batch ELSE 0)

C28_Witness ==
    /\ el.kind = "audio_src"
    /\ el.pc = "read"
    /\ el.late
    /\ el.head < 2 * el.batch
    /\ el.audio_state.index = 0
    /\ el.audio_state.next_discont
    /\ ~el.pre.next_discont
(***************************************************************************)
(* The video source (rust/gst-mxl-rs/src/mxlsrc/create_video.rs).          *)
(***************************************************************************)
MXL_GRAIN_FLAG_INVALID == 1
MaxFrames == 2      \* buffers one source produces
MaxGrain == 4       \* largest index the producer commits
StoreFaults == {"flow_not_found", "invalid_flow_reader"}

\* The PTS of create_video: frame_counter frame periods after the initial
\* running time; a PTS behind the running time moves the initial running time
\* forward by the lag, and the buffer goes out at the running time.
video_pts_no_offset(frame_counter, ts_gst, gst_time) ==
    LET pts == frame_counter * TicksPerUnit + gst_time
    IN  IF pts < ts_gst
        THEN [pts |-> pts - gst_time, gst_time |-> gst_time + ts_gst - pts]
        ELSE [pts |-> pts, gst_time |-> gst_time]

video_pts(frame_counter, ts_gst, gst_time) ==
    LET pts == frame_counter * TicksPerUnit + gst_time
    IN  IF pts < ts_gst
        THEN LET prev_pts == pts
                 new_gst_time == gst_time + ts_gst - prev_pts
             IN  [pts |-> (pts - gst_time) + new_gst_time, gst_time |-> new_gst_time]
        ELSE [pts |-> pts, gst_time |-> gst_time]

\* What create_video returns for the result r of get_complete_grain.
create_video_outcome_propagates(r) ==
    IF r.status /= "ok" THEN "Error"
    ELSE IF (r.flags % (2 * MXL_GRAIN_FLAG_INVALID)) \div MXL_GRAIN_FLAG_INVALID /= 0
    THEN "Error"
    ELSE "DataCreated"

create_video_outcome_unflagged(r) ==
    IF r.status /= "ok" THEN "NoDataCreated" ELSE "DataCreated"

create_video_outcome(r) ==
    IF r.status /= "ok" THEN "NoDataCreated"
    ELSE IF (r.flags % (2 * MXL_GRAIN_FLAG_INVALID)) \div MXL_GRAIN_FLAG_INVALID /= 0
    THEN "Error"
    ELSE "DataCreated"

\* the index counted from the first frame, whatever the clock says
next_frame_index_counted(counted, current_index) == counted

\* let mut next_frame_index = initial_info.mxl_index + frame_counter; a
\* reader behind the current index jumps to it.
next_frame_index(counted, current_index) ==
    IF counted < current_index THEN current_index ELSE counted

\* create_video up to the read: the state is initialised on the first call,
\* a reader behind the current index jumps to it, and the PTS is computed.
create_video_start ==
    /\ el.kind = "video_src"
    /\ el.pc = "idle"
    /\ el.video_state.frame_counter < MaxFrames
    /\ LET current_index == get_current_index(el.now)
           ts_gst == el.running
           initial_info == IF el.video_state.is_initialized THEN el.initial_info
                           ELSE [mxl_index |-> current_index, gst_time |-> ts_gst]
           counted == initial_info.mxl_index + el.video_state.frame_counter
           p == video_pts(el.video_state.frame_counter, ts_gst, initial_info.gst_time)
       IN  el' = [el EXCEPT !.pc = "read",
                            !.initial_info = [initial_info EXCEPT !.gst_time = p.gst_time],
                            !.video_state.is_initialized = TRUE,
                            !.next_frame_index = next_frame_index(counted, current_index),
                            !.current_index = current_index,
                            !.pts = p.pts]
    /\ UNCHANGED <<flowKind, store, access, sess, committed>>

\* create_video from the return of get_complete_grain(next_frame_index,
\* timeout) on. fault: a status the store answers the read with whatever the
\* ring holds, "none" when it answers from the ring.
create_video_read(fault) ==
    /\ el.kind = "video_src"
    /\ el.pc = "read"
    /\ LET r == IF fault = "none" THEN GetCompleteGrain(store, el.next_frame_index)
                ELSE [status |-> fault]
           outcome == create_video_outcome(r)
       IN  /\ r.status /= "pending"
           /\ el' = [el EXCEPT
                        !.pc = "idle",
                        !.result = outcome,
                        !.read = [status |-> r.status,
                                  flags |-> IF r.status = "ok" THEN r.flags ELSE 0,
                                  frame_counter |-> el.video_state.frame_counter],
                        !.video_state.frame_counter =
                            IF outcome = "DataCreated" THEN @ + 1 ELSE @,
                        !.prev_pts = IF outcome = "DataCreated" /\ el.last_pts /= NoPts
                                     THEN el.last_pts ELSE @,
                        !.last_pts = IF outcome = "DataCreated" THEN el.pts ELSE @,
                        !.prev_grain = IF outcome = "DataCreated" THEN el.last_grain
                                       ELSE @,
                        !.last_grain = IF outcome = "DataCreated"
                                       THEN el.next_frame_index ELSE @]
    /\ UNCHANGED <<flowKind, store, access, sess, committed>>

\* The producer of the flow commits grain i with valid_slices of its slices
\* and the given flags.
producer_grain(i, valid_slices, flags) ==
    /\ el.kind \in {"video_src", "grain_reader"}
    /\ i >= store.headIndex
    /\ store' = StoreCommitGrain(
                    StoreOpenGrain(store, i),
                    [StoreGrainInfo(store, i) EXCEPT !.validSlices = valid_slices,
                                                     !.flags = flags])
    /\ UNCHANGED <<flowKind, access, sess, committed, el>>

\* The source starts on a discrete flow; the pipeline may already be running.
VideoSrcInit ==
    /\ flowKind = "discrete"
    /\ store = StoreInit
    /\ access = NoAccess
    /\ sess = SessInit
    /\ committed = CommittedInit
    /\ \E running \in {0, MaxRunning} :
           el = [kind |-> "video_src", pc |-> "idle",
                 now |-> running, running |-> running, until |-> running + MaxRunning,
                 initial_info |-> [mxl_index |-> 0, gst_time |-> 0],
                 video_state |-> [frame_counter |-> 0, is_initialized |-> FALSE],
                 next_frame_index |-> 0, current_index |-> 0, pts |-> 0,
                 result |-> "none",
                 read |-> [status |-> "none", flags |-> 0, frame_counter |-> 0],
                 prev_pts |-> NoPts, last_pts |-> NoPts,
                 prev_grain |-> NoIndex, last_grain |-> NoIndex]

VideoSrcNext ==
    \/ create_video_start
    \/ \E fault \in {"none"} \cup StoreFaults : create_video_read(fault)
    \/ \E i \in 0..MaxGrain : \E valid_slices \in {TotalSlices - 1, TotalSlices} :
           \E flags \in {0, MXL_GRAIN_FLAG_INVALID} :
               producer_grain(i, valid_slices, flags)
    \/ Tick

VideoSrcSpec == VideoSrcInit /\ [][VideoSrcNext]_vars

\* C11: a blocking complete-grain read of an index above the head, with no
\* commit reaching it before the timeout, returns Timeout, and the video
\* source answers that read with NoDataCreated, not with an error.
C11_TimeoutNoData ==
    el.kind = "video_src" =>
        /\ \A index \in 0..(MaxGrain + MaxFrames) :
               index > store.headIndex =>
                   GetCompleteGrain(store, index).status = "timeout"
        /\ el.read.status = "timeout" =>
               /\ el.result = "NoDataCreated"
               /\ el.video_state.frame_counter = el.read.frame_counter

C11_Witness ==
    /\ el.kind = "video_src"
    /\ el.pc = "idle"
    /\ el.read.status = "timeout"
    /\ el.result = "NoDataCreated"
    /\ store.headIndex >= 0
    /\ el.next_frame_index > store.headIndex + 1

\* C12: each buffer the video source produces has a PTS at or after the PTS
\* of the buffer it produced before, with the clock never going back.
C12_PtsMonotone ==
    (el.kind = "video_src" /\ el.prev_pts /= NoPts) => el.prev_pts <= el.last_pts

C12_Witness ==
    /\ el.kind = "video_src"
    /\ el.prev_pts /= NoPts
    /\ el.last_pts > el.prev_pts + TicksPerUnit
    /\ el.last_pts = el.running

\* C31: the grain indices of the buffers the video source produces one after
\* the other are strictly increasing; no grain goes out twice, also when the
\* target is clamped to the current index in calls of the same grain period.
C31_GrainIndicesIncrease ==
    (el.kind = "video_src" /\ el.prev_grain /= NoIndex) =>
        el.prev_grain < el.last_grain

\* C13: a grain read with the invalid flag makes create_video return an
\* error: no buffer, not NoDataCreated, and the frame counter stays.
C13_InvalidGrain ==
    (/\ el.kind = "video_src"
     /\ el.read.status = "ok"
     /\ el.read.flags = MXL_GRAIN_FLAG_INVALID) =>
        /\ el.result = "Error"
        /\ el.video_state.frame_counter = el.read.frame_counter

C13_Witness ==
    /\ el.kind = "video_src"
    /\ el.read.status = "ok"
    /\ el.read.flags = MXL_GRAIN_FLAG_INVALID
    /\ el.result = "Error"
    /\ el.video_state.frame_counter > 0

\* C14: the video source answers NoDataCreated only to a read that timed
\* out or found the flow gone; every other error of the read is returned as
\* an error.
C14_OnlyTimeoutOrStale ==
    (el.kind = "video_src" /\ el.read.status \notin {"none", "ok"}) =>
        IF el.read.status \in {"timeout", "flow_not_found"}
        THEN el.result = "NoDataCreated"
        ELSE el.result = "Error"

\* C27: the index the video source asks for in a call is the larger of
\* (index of the first call + frames produced so far) and the current index
\* of that call, so never below the current index; a target above the current
\* index is asked for all the same, and the read comes back by its timeout.
C27_RequestedIndex ==
    (el.kind = "video_src" /\ el.video_state.is_initialized) =>
        \E produced \in {IF el.pc = "read" THEN el.video_state.frame_counter
                         ELSE el.read.frame_counter} :
            /\ el.next_frame_index =
                   (IF el.initial_info.mxl_index + produced >= el.current_index
                    THEN el.initial_info.mxl_index + produced
                    ELSE el.current_index)
            /\ el.next_frame_index >= el.current_index

C27_Witness ==
    /\ el.kind = "video_src"
    /\ el.pc = "idle"
    /\ el.read.status = "timeout"
    /\ el.read.frame_counter > 0
    /\ el.next_frame_index > el.current_index
    /\ el.result = "NoDataCreated"

(***************************************************************************)
(* Either source, on a flow whose producer commits whole valid grains or   *)
(* samples: the timestamps of the buffers against the running time.        *)
(***************************************************************************)
SrcPtsInit == VideoSrcInit \/ AudioSrcInit

SrcPtsNext ==
    \/ create_video_start
    \/ \E fault \in {"none"} \cup StoreFaults : create_video_read(fault)
    \/ \E i \in 0..MaxGrain : producer_grain(i, TotalSlices, 0)
    \/ create_audio_start
    \/ create_audio_read
    \/ \E n \in 1..MaxAdvance : producer_commit(n)
    \/ Tick

SrcPtsSpec == SrcPtsInit /\ [][SrcPtsNext]_vars

\* A step of the video source: the PTS computed at the start of a call is at
\* or after the running time sampled there, a buffer produced carries that
\* PTS, and initial_info.gst_time does not go back.
VideoPtsStep ==
    el.kind = "video_src" =>
        /\ (el.pc = "idle" /\ el'.pc = "read") => el'.pts >= el.running
        /\ (el.pc = "read" /\ el'.result = "DataCreated" /\ el'.pc = "idle") =>
               el'.last_pts = el.pts
        /\ el'.initial_info.gst_time >= el.initial_info.gst_time

\* A step of the audio source: initial_info.gst_time goes back only where
\* the baseline is set anew (first call, catch-up).
AudioPtsStep ==
    el.kind = "audio_src" =>
        \/ el'.initial_info.gst_time >= el.initial_info.gst_time
        \/ /\ el.pc = "idle"
           /\ el'.pc = "read"
           /\ el'.late \/ ~el.audio_state.is_initialized

MaxPasses == 2      \* passes of the loop that are counted

\* A caller asks for the complete grain at index.
get_complete_grain_call(index) ==
    /\ el.kind = "grain_reader"
    /\ el.pc \in {"idle", "returned"}
    /\ el' = [el EXCEPT !.pc = "loop", !.index = index, !.passes = 0,
                        !.result = "none"]
    /\ UNCHANGED <<flowKind, store, access, sess, committed>>

\* One pass of the loop whose store call returns without waiting out its
\* timeout: an error returns it, a grain with all its slices returns the
\* grain, a grain with fewer slices goes round again.
get_complete_grain_pass ==
    /\ el.kind = "grain_reader"
    /\ el.pc = "loop"
    /\ LET g == StoreGetGrain(store, el.index)
       IN  /\ g.status /= "too_early"
           /\ el' = IF g.status /= "ok"
                    THEN [el EXCEPT !.pc = "returned", !.result = g.status]
                    ELSE IF g.info.validSlices /= g.info.totalSlices
                    THEN [el EXCEPT !.passes = Min(@ + 1, MaxPasses)]
                    ELSE [el EXCEPT !.pc = "returned", !.result = "ok"]
    /\ UNCHANGED <<flowKind, store, access, sess, committed>>

\* The store call of a pass waits out its timeout with the index still above
\* the head: the status is a timeout and the loop returns it.
get_complete_grain_timeout ==
    /\ el.kind = "grain_reader"
    /\ el.pc = "loop"
    /\ StoreGetGrain(store, el.index).status = "too_early"
    /\ el' = [el EXCEPT !.pc = "returned", !.result = "timeout"]
    /\ UNCHANGED <<flowKind, store, access, sess, committed>>

GrainReadInit ==
    /\ flowKind = "discrete"
    /\ store = StoreInit
    /\ access = NoAccess
    /\ sess = SessInit
    /\ committed = CommittedInit
    /\ el = [kind |-> "grain_reader", pc |-> "idle", index |-> 0, passes |-> 0,
             result |-> "none"]

GrainReadNext ==
    \/ \E index \in 0..MaxGrain : get_complete_grain_call(index)
    \/ get_complete_grain_pass
    \/ get_complete_grain_timeout
    \/ \E i \in 0..MaxGrain : \E valid_slices \in {TotalSlices - 1, TotalSlices} :
           \E flags \in {0, MXL_GRAIN_FLAG_INVALID} :
               producer_grain(i, valid_slices, flags)

\* The reader's thread runs and the store's timeouts expire; nothing is
\* assumed of the producer.
GrainReadSpec ==
    /\ GrainReadInit
    /\ [][GrainReadNext]_vars
    /\ WF_vars(get_complete_grain_pass)
    /\ WF_vars(get_complete_grain_timeout)

\* C16: every call of get_complete_grain returns, with the grain or with an
\* error, also when the grain stays partially committed for ever.
C16_AlwaysReturns ==
    (el.kind = "grain_reader" /\ el.pc = "loop") ~> (el.pc = "returned")
(***************************************************************************)
(* The audio source's wait for the producer, pass by pass                  *)
(* (rust/gst-mxl-rs/src/mxlsrc/create_audio.rs, wait_for_sample), with     *)
(* unlock and unlock_stop of rust/gst-mxl-rs/src/mxlsrc/imp.rs running on  *)
(* another thread. elapsed counts clock ticks since the wait began.        *)
(***************************************************************************)
PRODUCER_TIMEOUT == 2   \* in clock ticks
NoUnlock == 0 - 1

\* What one turn of the while loop of wait_for_sample does.
wait_for_sample_step_untimed(index, batch, head, elapsed) ==
    IF ~(index + batch > head) THEN "data" ELSE "poll"

wait_for_sample_step(index, batch, head, elapsed) ==
    IF ~(index + batch > head) THEN "data"
    ELSE IF elapsed > PRODUCER_TIMEOUT THEN "timeout"
    ELSE "poll"

\* create_audio reaches wait_for_sample with the head of its get_info.
wait_for_sample_start(index) ==
    /\ el.kind = "audio_wait"
    /\ el.pc /= "wait"
    /\ el' = [el EXCEPT !.pc = "wait", !.index = index,
                        !.head = head_index(store), !.elapsed = 0,
                        !.exit = "none", !.unlocked_at = NoUnlock,
                        !.polled_flushing = FALSE]
    /\ UNCHANGED <<flowKind, store, access, sess, committed>>

\* One turn of the loop. info_ok: whether the get_info of wait_for_producer
\* succeeds.
wait_for_sample_pass(info_ok) ==
    /\ el.kind = "audio_wait"
    /\ el.pc = "wait"
    /\ LET step == wait_for_sample_step(el.index, el.batch, el.head, el.elapsed)
       IN  el' = IF step /= "poll"
                 THEN [el EXCEPT !.pc = "read", !.exit = step]
                 ELSE IF info_ok
                 THEN [el EXCEPT !.head = head_index(store),
                                 !.polled_flushing = @ \/ el.flushing]
                 ELSE [el EXCEPT !.pc = "error", !.exit = "error"]
    /\ UNCHANGED <<flowKind, store, access, sess, committed>>

\* Time passes while the loop runs.
wait_elapse ==
    /\ el.kind = "audio_wait"
    /\ el.pc = "wait"
    /\ el.elapsed <= PRODUCER_TIMEOUT
    /\ el' = [el EXCEPT !.elapsed = @ + 1]
    /\ UNCHANGED <<flowKind, store, access, sess, committed>>

\* BaseSrcImpl::unlock: no clock id is ever stored, the flag is raised.
unlock ==
    /\ el.kind = "audio_wait"
    /\ ~el.flushing
    /\ el' = [el EXCEPT !.flushing = TRUE,
                        !.unlocked_at = IF el.pc = "wait" THEN el.elapsed ELSE @]
    /\ UNCHANGED <<flowKind, store, access, sess, committed>>

\* BaseSrcImpl::unlock_stop
unlock_stop ==
    /\ el.kind = "audio_wait"
    /\ el.flushing
    /\ el' = [el EXCEPT !.flushing = FALSE, !.unlocked_at = NoUnlock,
                        !.polled_flushing = FALSE]
    /\ UNCHANGED <<flowKind, store, access, sess, committed>>

\* The source is started (start ends with unlock_stop) on a continuous flow.
WaitInit ==
    /\ flowKind = "continuous"
    /\ \E head \in 0..MaxAdvance : store = [StoreInit EXCEPT !.headIndex = head]
    /\ access = NoAccess
    /\ sess = SessInit
    /\ committed = CommittedInit
    /\ \E hint \in 1..MaxHint :
           el = [kind |-> "audio_wait", pc |-> "idle",
                 batch |-> batch_size(BufferLength, hint),
                 index |-> 0, head |-> 0, elapsed |-> 0, exit |-> "none",
                 flushing |-> FALSE, unlocked_at |-> NoUnlock,
                 polled_flushing |-> FALSE]

WaitNext ==
    \/ \E index \in 0..MaxHead : wait_for_sample_start(index)
    \/ \E info_ok \in BOOLEAN : wait_for_sample_pass(info_ok)
    \/ wait_elapse
    \/ \E n \in 1..MaxAdvance : producer_commit(n)
    \/ unlock
    \/ unlock_stop

\* The streaming thread runs and the clock advances; nothing is assumed of
\* the producer, of the thread that unlocks, or of get_info failing.
WaitSpec ==
    /\ WaitInit
    /\ [][WaitNext]_vars
    /\ WF_vars(wait_for_sample_pass(TRUE))
    /\ WF_vars(wait_elapse)

C18_UnlockEndsWait ==
    ~(/\ el.kind = "audio_wait"
      /\ el.pc = "read"
      /\ el.exit = "timeout"
      /\ el.flushing
      /\ el.polled_flushing
      /\ el.unlocked_at /= NoUnlock
      /\ el.unlocked_at < PRODUCER_TIMEOUT)
(***************************************************************************)
(* The sink's life cycle (rust/gst-mxl-rs/src/mxlsink/imp.rs and           *)
(* state.rs): set_caps, render and stop, each under the context mutex,     *)
(* render and stop on threads of their own.                                *)
(***************************************************************************)
\* What the store answers create_flow_writer with: a flow with an active
\* writer gives a conflict, or a handle with was_created = false.
create_flow_writer_outcomes(active_writer) ==
    IF active_writer = "none" THEN {"created"} ELSE {"conflict", "not_created"}

\* init_state_with_video without the test of is_created
init_state_with_video_unchecked(outcome, convert_ok) ==
    IF outcome = "conflict"
    THEN [result |-> "error", installed |-> FALSE, obtained |-> 0, released |-> 0]
    ELSE IF ~convert_ok
    THEN [result |-> "error", installed |-> FALSE, obtained |-> 1, released |-> 1]
    ELSE [result |-> "ok", installed |-> TRUE, obtained |-> 1, released |-> 0]

\* init_state_with_video: the handles obtained from and released to the
\* store, whether state.video is installed, and the result. convert_ok:
\* whether to_grain_writer succeeds. A FlowWriter or GrainWriter that goes
\* out of scope releases its handle.
init_state_with_video(outcome, convert_ok) ==
    IF outcome = "conflict"
    THEN [result |-> "error", installed |-> FALSE, obtained |-> 0, released |-> 0]
    ELSE IF outcome /= "created"
    THEN [result |-> "error", installed |-> FALSE, obtained |-> 1, released |-> 1]
    ELSE IF ~convert_ok
    THEN [result |-> "error", installed |-> FALSE, obtained |-> 1, released |-> 1]
    ELSE [result |-> "ok", installed |-> TRUE, obtained |-> 1, released |-> 0]

\* init_state_with_audio: the conversion to a SamplesWriter comes before the
\* test of is_created.
init_state_with_audio(outcome, convert_ok) ==
    IF outcome = "conflict"
    THEN [result |-> "error", installed |-> FALSE, obtained |-> 0, released |-> 0]
    ELSE IF ~convert_ok
    THEN [result |-> "error", installed |-> FALSE, obtained |-> 1, released |-> 1]
    ELSE IF outcome /= "created"
    THEN [result |-> "error", installed |-> FALSE, obtained |-> 1, released |-> 1]
    ELSE [result |-> "ok", installed |-> TRUE, obtained |-> 1, released |-> 0]

\* Mutex::lock returns once no other thread holds the mutex.
lock_free_always(mutex) == TRUE

lock_free(mutex) == mutex = "free"

\* set_caps, under the context mutex from its first line to its return.
set_caps(outcome, convert_ok) ==
    /\ el.kind = "sink"
    /\ lock_free(el.mutex)
    /\ ~el.installed
    /\ outcome \in create_flow_writer_outcomes(el.active_writer)
    /\ LET r == IF el.media = "audio" THEN init_state_with_audio(outcome, convert_ok)
                ELSE init_state_with_video(outcome, convert_ok)
       IN  el' = [el EXCEPT !.installed = r.installed,
                            !.handles = @ + r.obtained - r.released,
                            !.active_writer = IF r.installed THEN "self" ELSE @,
                            !.set_caps = [outcome |-> outcome, result |-> r.result,
                                          obtained |-> r.obtained]]
    /\ UNCHANGED <<flowKind, store, access, sess, committed>>

\* A writer of another process takes or leaves the flow.
other_writer ==
    /\ el.kind = "sink"
    /\ el.active_writer /= "self"
    /\ el' = [el EXCEPT !.active_writer = IF @ = "none" THEN "other" ELSE "none"]
    /\ UNCHANGED <<flowKind, store, access, sess, committed>>

\* The streaming thread calls render.
render_call ==
    /\ el.kind = "sink"
    /\ el.render_pc = "idle"
    /\ el' = [el EXCEPT !.render_pc = "want"]
    /\ UNCHANGED <<flowKind, store, access, sess, committed>>

\* render: self.context.lock()
render_lock ==
    /\ el.kind = "sink"
    /\ el.render_pc = "want"
    /\ lock_free(el.mutex)
    /\ el' = [el EXCEPT !.render_pc = "locked", !.mutex = "render"]
    /\ UNCHANGED <<flowKind, store, access, sess, committed>>

\* render up to the open session: with no writer state it returns an error;
\* else the write session is opened (open_ok: whether the store accepts it).
render_open(index, open_ok) ==
    /\ el.kind = "sink"
    /\ el.render_pc = "locked"
    /\ IF el.installed /\ open_ok
       THEN /\ store' = IF el.media = "audio" THEN StoreOpenSamples(store, index, 1)
                        ELSE StoreOpenGrain(store, index)
            /\ access' = IF el.media = "audio"
                         THEN [kind |-> "samples",
                               buffer_slice |-> StoreSlice(index, 1),
                               committed_or_canceled |-> FALSE]
                         ELSE [kind |-> "grain",
                               grain_info |-> StoreGrainInfo(store, index),
                               payload_ptr |-> Slot(index),
                               committed_or_canceled |-> FALSE]
            /\ el' = [el EXCEPT !.render_pc = "open"]
       ELSE /\ el' = [el EXCEPT !.render_pc = "idle", !.render_result = "error",
                                !.mutex = IF @ = "render" THEN "free" ELSE @]
            /\ UNCHANGED <<store, access>>
    /\ UNCHANGED <<flowKind, sess, committed>>

\* render from the open session to its return: the commit, the drop of the
\* session, the release of the mutex.
render_commit ==
    /\ el.kind = "sink"
    /\ el.render_pc = "open"
    /\ store' = StoreCalls(store,
                    IF access.kind = "samples" THEN SamplesCommitCalls(access)
                    ELSE GrainCommitCalls(access, access.grain_info.totalSlices))
    /\ access' = NoAccess
    /\ el' = [el EXCEPT !.render_pc = "idle", !.render_result = "ok",
                        !.mutex = IF @ = "render" THEN "free" ELSE @]
    /\ UNCHANGED <<flowKind, sess, committed>>

\* The application thread calls stop.
stop_call ==
    /\ el.kind = "sink"
    /\ el.stop_pc = "idle"
    /\ el' = [el EXCEPT !.stop_pc = "want"]
    /\ UNCHANGED <<flowKind, store, access, sess, committed>>

\* stop: self.context.lock()
stop_lock ==
    /\ el.kind = "sink"
    /\ el.stop_pc = "want"
    /\ lock_free(el.mutex)
    /\ el' = [el EXCEPT !.stop_pc = "locked", !.mutex = "stop"]
    /\ UNCHANGED <<flowKind, store, access, sess, committed>>

\* stop under the mutex: unlock(), then the writer state is taken and its
\* handle released. released_open: whether a write session was open in the
\* store when the handle was released.
stop_destroy ==
    /\ el.kind = "sink"
    /\ el.stop_pc = "locked"
    /\ el' = [el EXCEPT !.stop_pc = "idle",
                        !.mutex = IF @ = "stop" THEN "free" ELSE @,
                        !.flushing = TRUE,
                        !.installed = FALSE,
                        !.handles = IF el.installed THEN @ - 1 ELSE @,
                        !.active_writer = IF el.installed THEN "none" ELSE @,
                        !.released = el.installed,
                        !.released_open = @ \/ (el.installed /\ store.open.open)]
    /\ UNCHANGED <<flowKind, store, access, sess, committed>>

\* The sink after start: an empty state, no flow yet; another process may
\* hold the flow's writer.
SinkInit ==
    /\ \E media \in {"video", "audio"} : \E active_writer \in {"none", "other"} :
           /\ flowKind = (IF media = "audio" THEN "continuous" ELSE "discrete")
           /\ el = [kind |-> "sink", media |-> media, mutex |-> "free",
                    render_pc |-> "idle", stop_pc |-> "idle",
                    installed |-> FALSE, handles |-> 0,
                    active_writer |-> active_writer,
                    set_caps |-> [outcome |-> "none", result |-> "none", obtained |-> 0],
                    render_result |-> "none", flushing |-> FALSE,
                    released |-> FALSE, released_open |-> FALSE]
    /\ store = StoreInit
    /\ access = NoAccess
    /\ sess = SessInit
    /\ committed = CommittedInit

SinkNext ==
    \/ \E outcome \in {"created", "conflict", "not_created"} :
           \E convert_ok \in BOOLEAN : set_caps(outcome, convert_ok)
    \/ other_writer
    \/ render_call
    \/ render_lock
    \/ \E index \in 0..MaxIndex : \E open_ok \in BOOLEAN : render_open(index, open_ok)
    \/ render_commit
    \/ stop_call
    \/ stop_lock
    \/ stop_destroy

SinkSpec == SinkInit /\ [][SinkNext]_vars

C19_NoOpenSessionAtRelease ==
    el.kind = "sink" =>
        /\ ~el.released_open
        /\ (el.stop_pc = "locked" /\ el.installed) => ~store.open.open

C19_Witness ==
    /\ el.kind = "sink"
    /\ el.released
    /\ ~el.installed
    /\ el.render_pc = "want"
    /\ store.headIndex >= 0
(***************************************************************************)
(* Rates (rust/mxl/src/instance.rs and the PTS computations of the         *)
(* sources). A rate is numerator / denominator units per second; a second  *)
(* is TicksPerSecond clock ticks.                                          *)
(***************************************************************************)
MaxRate == 2            \* largest numerator and denominator
TicksPerSecond == 2
UNDEFINED == 0 - 1      \* u64::MAX, the store's answer for a rate it rejects
Rates == [numerator : 0..MaxRate, denominator : 0..MaxRate]
BadRate(rate) == rate.numerator = 0 \/ rate.denominator = 0

\* mxlTimestampToIndex / mxlIndexToTimestamp / mxlGetCurrentIndex
api_timestamp_to_index(rate, timestamp) ==
    IF BadRate(rate) THEN UNDEFINED
    ELSE (timestamp * rate.numerator) \div (rate.denominator * TicksPerSecond)

api_index_to_timestamp(rate, index) ==
    IF BadRate(rate) THEN UNDEFINED
    ELSE (index * rate.denominator * TicksPerSecond) \div rate.numerator

\* MxlInstance::timestamp_to_index(timestamp, rate)
rate_timestamp_to_index(timestamp, rate) ==
    LET index == api_timestamp_to_index(rate, timestamp)
    IN  IF index = UNDEFINED THEN [kind |-> "error"]
        ELSE [kind |-> "ok", value |-> index]

\* MxlInstance::index_to_timestamp(index, rate)
rate_index_to_timestamp(index, rate) ==
    LET timestamp == api_index_to_timestamp(rate, index)
    IN  IF timestamp = UNDEFINED THEN [kind |-> "error"]
        ELSE [kind |-> "ok", value |-> timestamp]

\* MxlInstance::get_current_index(rate) returns a plain u64.
rate_get_current_index(now, rate) ==
    [kind |-> "ok", value |-> api_timestamp_to_index(rate, now)]

\* An integer division as Rust evaluates it: by zero it panics.
checked_div(a, b) ==
    IF b = 0 THEN [kind |-> "panic"] ELSE [kind |-> "ok", value |-> a \div b]

\* create_video, the PTS from the frame counter and the rate.
create_video_pts(frame_counter, rate) ==
    checked_div(frame_counter * TicksPerSecond * rate.denominator, rate.numerator)

\* create_audio after the read: compute_batch_duration, then compute_pts.
create_audio_pts(index, batch, batch_counter, rate) ==
    LET next_head_timestamp == rate_index_to_timestamp(index + batch, rate)
        read_head_timestamp == rate_index_to_timestamp(index, rate)
        batch_duration_ns == checked_div(batch * TicksPerSecond * rate.denominator,
                                         rate.numerator)
    IN  IF next_head_timestamp.kind = "error" \/ read_head_timestamp.kind = "error"
        THEN [kind |-> "error"]
        ELSE IF batch_duration_ns.kind = "panic" THEN batch_duration_ns
        ELSE [kind |-> "ok", value |-> batch_counter * batch_duration_ns.value]

\* One call with the flow's rate.
rate_call(op, x, y) ==
    /\ el.kind = "rate"
    /\ el' = [el EXCEPT
                 !.op = op, !.x = x, !.y = y,
                 !.result =
                     CASE op = "timestamp_to_index" -> rate_timestamp_to_index(x, el.rate)
                       [] op = "index_to_timestamp" -> rate_index_to_timestamp(x, el.rate)
                       [] op = "get_current_index" -> rate_get_current_index(x, el.rate)
                       [] op = "create_video" -> create_video_pts(x, el.rate)
                       [] op = "create_audio" -> create_audio_pts(x, 1, y, el.rate)]
    /\ UNCHANGED <<flowKind, store, access, sess, committed>>

RateOps ==
    {"timestamp_to_index", "index_to_timestamp", "get_current_index",
     "create_video", "create_audio"}

RateInit ==
    /\ flowKind \in {"discrete", "continuous"}
    /\ store = StoreInit
    /\ access = NoAccess
    /\ sess = SessInit
    /\ committed = CommittedInit
    /\ \E rate \in Rates :
           el = [kind |-> "rate", rate |-> rate, op |-> "none", x |-> 0, y |-> 0,
                 result |-> [kind |-> "none"]]

RateNext ==
    \E op \in RateOps : \E x \in 0..MaxHead : \E y \in 0..MaxBatches :
        rate_call(op, x, y)

RateSpec == RateInit /\ [][RateNext]_vars

\* C21: with a rate whose numerator or denominator is zero, every query
\* and every pacing computation that uses the rate returns an error, and
\* none panics (get_current_index, which returns a bare index, may return
\* the undefined index).
C21_BadRateIsError ==
    (el.kind = "rate" /\ BadRate(el.rate) /\ el.op /= "none") =>
        IF el.op = "get_current_index"
        THEN el.result.kind = "ok" /\ el.result.value = UNDEFINED
        ELSE el.result.kind = "error"
(***************************************************************************)
(* Typed readers and writers from generic ones                             *)
(* (rust/mxl/src/flow/writer.rs, rust/mxl/src/flow/reader.rs).             *)
(***************************************************************************)
MaxHandles == 2     \* generic handles held at once
DataFormats == {"video", "audio", "data"}

\* is_discrete_data_format that knows video only
is_discrete_data_format_video_only(format) == format = "video"

\* is_discrete_data_format(format)
is_discrete_data_format(format) == format = "video" \/ format = "data"

\* FlowWriter::to_grain_writer / FlowReader::to_grain_reader. info_ok:
\* whether the flow info can be read (get_flow_type / get_info).
to_grain(format, info_ok) ==
    IF ~info_ok THEN "error"
    ELSE IF ~is_discrete_data_format(format) THEN "error"
    ELSE "ok"

\* FlowWriter::to_samples_writer / FlowReader::to_samples_reader
to_samples(format, info_ok) ==
    IF ~info_ok THEN "error"
    ELSE IF is_discrete_data_format(format) THEN "error"
    ELSE "ok"

\* create_flow_reader / create_flow_writer: one more generic handle; a flow
\* has one writer at most.
conv_create ==
    /\ el.kind = "conv"
    /\ el.generic < MaxHandles
    /\ el.side = "reader" \/ el.generic + el.typed = 0
    /\ el' = [el EXCEPT !.generic = @ + 1]
    /\ UNCHANGED <<flowKind, store, access, sess, committed>>

\* A conversion consumes a generic handle: on Ok the typed handle owns the
\* store handle, on Err the generic handle is dropped and releases it.
conv_convert(op, info_ok) ==
    /\ el.kind = "conv"
    /\ el.generic > 0
    /\ el.typed < MaxHandles
    /\ LET result == IF op = "to_grain" THEN to_grain(el.format, info_ok)
                     ELSE to_samples(el.format, info_ok)
       IN  el' = [el EXCEPT !.generic = @ - 1,
                            !.typed = IF result = "ok" THEN @ + 1 ELSE @,
                            !.last = [op |-> op, info_ok |-> info_ok, result |-> result],
                            !.done = [@ EXCEPT ![op] = IF info_ok THEN result ELSE @]]
    /\ UNCHANGED <<flowKind, store, access, sess, committed>>

\* A typed handle is destroyed.
conv_destroy ==
    /\ el.kind = "conv"
    /\ el.typed > 0
    /\ el' = [el EXCEPT !.typed = @ - 1]
    /\ UNCHANGED <<flowKind, store, access, sess, committed>>

ConvInit ==
    /\ store = StoreInit
    /\ access = NoAccess
    /\ sess = SessInit
    /\ committed = CommittedInit
    /\ \E format \in DataFormats : \E side \in {"reader", "writer"} :
           /\ flowKind = (IF format = "audio" THEN "continuous" ELSE "discrete")
           /\ el = [kind |-> "conv", format |-> format, side |-> side,
                    generic |-> 0, typed |-> 0,
                    last |-> [op |-> "none", info_ok |-> TRUE, result |-> "none"],
                    done |-> [op \in {"to_grain", "to_samples"} |-> "none"]]

ConvNext ==
    \/ conv_create
    \/ \E op \in {"to_grain", "to_samples"} : \E info_ok \in BOOLEAN :
           conv_convert(op, info_ok)
    \/ conv_destroy

ConvSpec == ConvInit /\ [][ConvNext]_vars

Strong(e) == e.instances + e.readers + e.writers

\* InstanceContext::destroy that leaves the instance pointer in place
InstanceContext_destroy_keeps(ctx) ==
    [ctx EXCEPT !.destroy_calls = @ + 1,
                !.users_at_destroy = ctx.readers + ctx.writers]

\* InstanceContext::destroy(self): the pointer is swapped for null and the
\* store instance destroyed.
InstanceContext_destroy(ctx) ==
    [ctx EXCEPT !.instance_null = TRUE,
                !.destroy_calls = @ + 1,
                !.users_at_destroy = ctx.readers + ctx.writers]

\* Drop for InstanceContext
InstanceContext_drop(ctx) ==
    IF ~ctx.instance_null
    THEN [ctx EXCEPT !.destroy_calls = @ + 1,
                     !.users_at_destroy = ctx.readers + ctx.writers,
                     !.dropped = TRUE]
    ELSE [ctx EXCEPT !.dropped = TRUE]

\* One holder of the Arc goes away; the last one drops the context.
ArcRelease(ctx) == IF Strong(ctx) = 0 THEN InstanceContext_drop(ctx) ELSE ctx

\* MxlInstance::clone
inst_clone ==
    /\ el.kind = "instance"
    /\ el.instances > 0
    /\ el.instances < MaxHandles
    /\ el' = [el EXCEPT !.instances = @ + 1, !.last = "clone"]
    /\ UNCHANGED <<flowKind, store, access, sess, committed>>

\* create_flow_reader / create_flow_writer: the new handle holds a clone of
\* the context.
inst_create(side) ==
    /\ el.kind = "instance"
    /\ el.instances > 0
    /\ el[side] < MaxHandles
    /\ el' = [el EXCEPT ![side] = @ + 1, !.last = "create"]
    /\ UNCHANGED <<flowKind, store, access, sess, committed>>

\* A reader or writer is destroyed or dropped: its store handle is released,
\* then its clone of the context goes.
inst_drop_user(side) ==
    /\ el.kind = "instance"
    /\ el[side] > 0
    /\ el' = [ArcRelease([el EXCEPT ![side] = @ - 1]) EXCEPT !.last = "drop_user"]
    /\ UNCHANGED <<flowKind, store, access, sess, committed>>

\* An MxlInstance value goes out of scope.
inst_drop ==
    /\ el.kind = "instance"
    /\ el.instances > 0
    /\ el' = [ArcRelease([el EXCEPT !.instances = @ - 1]) EXCEPT !.last = "drop"]
    /\ UNCHANGED <<flowKind, store, access, sess, committed>>

\* MxlInstance::destroy(self): Arc::into_inner gives the context to the last
\* holder only; any other holder gets the error and its reference is gone.
inst_destroy ==
    /\ el.kind = "instance"
    /\ el.instances > 0
    /\ LET rest == [el EXCEPT !.instances = @ - 1]
       IN  el' = IF Strong(rest) = 0
                 THEN [InstanceContext_drop(InstanceContext_destroy(rest))
                          EXCEPT !.last = "destroy_ok"]
                 ELSE [rest EXCEPT !.last = "destroy_in_use"]
    /\ UNCHANGED <<flowKind, store, access, sess, committed>>

InstInit ==
    /\ flowKind \in {"discrete", "continuous"}
    /\ store = StoreInit
    /\ access = NoAccess
    /\ sess = SessInit
    /\ committed = CommittedInit
    /\ el = [kind |-> "instance", instances |-> 1, readers |-> 0, writers |-> 0,
             instance_null |-> FALSE, dropped |-> FALSE,
             destroy_calls |-> 0, users_at_destroy |-> 0, last |-> "new"]

InstNext ==
    \/ inst_clone
    \/ \E side \in {"readers", "writers"} : inst_create(side)
    \/ \E side \in {"readers", "writers"} : inst_drop_user(side)
    \/ inst_drop
    \/ inst_destroy

InstSpec == InstInit /\ [][InstNext]_vars

MaxDef == 3
INITIAL_BUFFER_SIZE == 2
FlowIds == {1, 2}
Bytes == {0, 1, 2}
NoDef == <<0>>

Texts == UNION {[1..n -> Bytes] : n \in 0..MaxDef}

HasNul(text) == \E i \in 1..Len(text) : text[i] = 0

Zeros(n) == [i \in 1..n |-> 0]

\* The store's get_flow_def: the text and its NUL need Len + 1 bytes; a
\* smaller buffer is left alone and the needed size reported.
StoreGetFlowDef(defs, id, buffer, buffer_size) ==
    IF defs[id] = NoDef
    THEN [status |-> "flow_not_found", buffer |-> buffer, buffer_size |-> buffer_size]
    ELSE IF buffer_size < Len(defs[id]) + 1
    THEN [status |-> "invalid_arg", buffer |-> buffer,
          buffer_size |-> Len(defs[id]) + 1]
    ELSE [status |-> "ok",
          buffer |-> defs[id] \o <<0>> \o Zeros(buffer_size - Len(defs[id]) - 1),
          buffer_size |-> Len(defs[id]) + 1]

\* the tail of get_flow_def without the test for the terminator
truncate_keeps_nul(buffer, buffer_size) ==
    SubSeq(buffer, 1, buffer_size)

\* if buffer_size > 0 && buffer[buffer_size - 1] == 0 { buffer_size -= 1 };
\* buffer.truncate(buffer_size)
truncate(buffer, buffer_size) ==
    IF buffer_size > 0 /\ buffer[buffer_size] = 0
    THEN SubSeq(buffer, 1, buffer_size - 1)
    ELSE SubSeq(buffer, 1, buffer_size)

\* MxlInstance::get_flow_def
get_flow_def(defs, id) ==
    LET first == StoreGetFlowDef(defs, id, Zeros(INITIAL_BUFFER_SIZE), INITIAL_BUFFER_SIZE)
    IN  IF first.status = "invalid_arg" /\ first.buffer_size > INITIAL_BUFFER_SIZE
        THEN LET second == StoreGetFlowDef(defs, id, Zeros(first.buffer_size),
                                           first.buffer_size)
             IN  IF second.status = "ok"
                 THEN [kind |-> "ok", text |-> truncate(second.buffer, second.buffer_size),
                       calls |-> 2]
                 ELSE [kind |-> "error", text |-> <<>>, calls |-> 2]
        ELSE IF first.status = "ok"
        THEN [kind |-> "ok", text |-> truncate(first.buffer, first.buffer_size),
              calls |-> 1]
        ELSE [kind |-> "error", text |-> <<>>, calls |-> 1]

\* create_flow_writer(flow_def): CString::new refuses a text with a NUL in
\* it; the store creates the flow with the text.
def_create(id, text) ==
    /\ el.kind = "flow_def"
    /\ el.defs[id] = NoDef
    /\ el' = IF HasNul(text)
             THEN [el EXCEPT !.last = [op |-> "create", id |-> id, kind |-> "error",
                                       text |-> <<>>, calls |-> 0]]
             ELSE [el EXCEPT !.defs[id] = text,
                             !.last = [op |-> "create", id |-> id, kind |-> "ok",
                                       text |-> <<>>, calls |-> 1]]
    /\ UNCHANGED <<flowKind, store, access, sess, committed>>

def_get(id) ==
    /\ el.kind = "flow_def"
    /\ \E r \in {get_flow_def(el.defs, id)} :
          el' = [el EXCEPT !.last = [op |-> "get", id |-> id, kind |-> r.kind,
                                     text |-> r.text, calls |-> r.calls]]
    /\ UNCHANGED <<flowKind, store, access, sess, committed>>

FlowDefInit ==
    /\ flowKind \in {"discrete", "continuous"}
    /\ store = StoreInit
    /\ access = NoAccess
    /\ sess = SessInit
    /\ committed = CommittedInit
    /\ el = [kind |-> "flow_def", defs |-> [id \in FlowIds |-> NoDef],
             last |-> [op |-> "none", id |-> 1, kind |-> "ok", text |-> <<>>,
                       calls |-> 0]]

FlowDefNext ==
    \/ \E id \in FlowIds, text \in Texts : def_create(id, text)
    \/ \E id \in FlowIds : def_get(id)

FlowDefSpec == FlowDefInit /\ [][FlowDefNext]_vars

\* C24: get_flow_def of a created flow returns the text the flow was created
\* with, without the terminating NUL, on the first call when the text and its
\* NUL fit the initial buffer and on the second call otherwise.
C24_FlowDefRoundTrip ==
    (el.kind = "flow_def" /\ el.last.op = "get" /\ el.defs[el.last.id] # NoDef) =>
        /\ el.last.kind = "ok"
        /\ el.last.text = el.defs[el.last.id]
        /\ el.last.calls = (IF Len(el.defs[el.last.id]) + 1 <= INITIAL_BUFFER_SIZE
                            THEN 1 ELSE 2)

C24_Witness ==
    /\ el.kind = "flow_def"
    /\ el.last.op = "get"
    /\ el.last.calls = 2
    /\ el.last.kind = "ok"
    /\ Len(el.last.text) = INITIAL_BUFFER_SIZE
(***************************************************************************)
(* Interleaved and planar audio: write_samples_per_channel of the sink     *)
(* (rust/gst-mxl-rs/src/mxlsink/render_audio.rs) and interleave_audio of   *)
(* the source (rust/gst-mxl-rs/src/mxlsrc/create_audio.rs).  Both only     *)
(* copy bytes, so the source buffer holds a different value in every byte. *)
(* Positions are counted from 0 as in the code; sequences start at 1.      *)
(***************************************************************************)
MaxChannels == 3       \* largest channel count
MaxPlaneSamples == 3   \* largest number of samples per channel
SizeOfF32 == 4         \* std::mem::size_of::<f32>()

\* The samples i of a channel that the inner loop writes into plane 1.
InPlane1(i, bytes_per_sample, len1) ==
    i * bytes_per_sample + bytes_per_sample <= len1

\* The samples i that it writes into plane 2, and where.
Plane2Offset(i, bytes_per_sample, len1) ==
    saturating_sub(i * bytes_per_sample, len1)

InPlane2(i, bytes_per_sample, len1, len2) ==
    /\ ~InPlane1(i, bytes_per_sample, len1)
    /\ i * bytes_per_sample < len1 + len2
    /\ Plane2Offset(i, bytes_per_sample, len1) + bytes_per_sample <= len2

\* The last of a set of samples (the loop writes them in order).
LastOf(S) == CHOOSE i \in S : \A j \in S : j <= i

\* write_samples_per_channel for channel ch: the two planes after the loop.
\* A sample whose bytes lie beyond the source ends the loop.
write_channel(bytes_per_sample, num_channels, ch, plane1, plane2, samples_per_channel, src_chunk) ==
    LET sample_offset(i) == i * num_channels * bytes_per_sample + ch * bytes_per_sample
        Taken == {i \in 0..(samples_per_channel - 1) :
                     \A h \in 0..i : sample_offset(h) + bytes_per_sample <= Len(src_chunk)}
        W1(k) == {i \in Taken : /\ InPlane1(i, bytes_per_sample, Len(plane1))
                                /\ k - 1 >= i * bytes_per_sample
                                /\ k - 1 < i * bytes_per_sample + bytes_per_sample}
        W2(k) == {i \in Taken :
                     /\ InPlane2(i, bytes_per_sample, Len(plane1), Len(plane2))
                     /\ k - 1 >= Plane2Offset(i, bytes_per_sample, Len(plane1))
                     /\ k - 1 < Plane2Offset(i, bytes_per_sample, Len(plane1))
                                   + bytes_per_sample}
    IN  [plane1 |-> [k \in 1..Len(plane1) |->
                        IF W1(k) = {} THEN plane1[k]
                        ELSE src_chunk[sample_offset(LastOf(W1(k)))
                                       + (k - 1 - LastOf(W1(k)) * bytes_per_sample) + 1]],
         plane2 |-> [k \in 1..Len(plane2) |->
                        IF W2(k) = {} THEN plane2[k]
                        ELSE src_chunk[sample_offset(LastOf(W2(k)))
                                       + (k - 1 - Plane2Offset(LastOf(W2(k)),
                                                  bytes_per_sample, Len(plane1))) + 1]]]

\* write_samples_per_channel: every channel in turn.
write_samples_per_channel(bytes_per_sample, num_channels, planes, samples_per_channel, src_chunk) ==
    [c \in 1..num_channels |->
        write_channel(bytes_per_sample, num_channels, c - 1, planes[c].plane1,
                      planes[c].plane2, samples_per_channel, src_chunk)]

\* the channels one after the other
interleave_audio_planar(planes) ==
    LET num_channels == Len(planes)
        width == IF num_channels = 0 THEN 0
                 ELSE Len(planes[1].plane1) + Len(planes[1].plane2)
    IN  [k \in 1..(width * num_channels) |->
            (planes[((k - 1) \div width) + 1].plane1
                \o planes[((k - 1) \div width) + 1].plane2)[((k - 1) % width) + 1]]

\* interleave_audio: the two fragments of every channel are joined, and the
\* frames are put out one after the other, each with one sample per channel.
interleave_audio(planes) ==
    LET num_channels == Len(planes)
        combined(c) == planes[c].plane1 \o planes[c].plane2
        total_samples_per_channel ==
            IF num_channels = 0 THEN 0
            ELSE Len(combined(num_channels)) \div SizeOfF32
    IN  [k \in 1..(total_samples_per_channel * num_channels * SizeOfF32) |->
            LET frame == (k - 1) \div (num_channels * SizeOfF32)
                chan == (((k - 1) \div SizeOfF32) % num_channels) + 1
                offset == frame * SizeOfF32
            IN  combined(chan)[offset + ((k - 1) % SizeOfF32) + 1]]

\* The sink writes the chunk into the planes of an open write.
interleave_write ==
    /\ el.kind = "interleave"
    /\ el.pc = "start"
    /\ el' = [el EXCEPT !.pc = "written",
                        !.planes = write_samples_per_channel(
                                       SizeOfF32, el.num_channels, el.planes,
                                       el.samples, el.src)]
    /\ UNCHANGED <<flowKind, store, access, sess, committed>>

\* The source builds its buffer from the planes of a read.
interleave_read ==
    /\ el.kind = "interleave"
    /\ el.pc = "written"
    /\ el' = [el EXCEPT !.pc = "read", !.out = interleave_audio(el.planes)]
    /\ UNCHANGED <<flowKind, store, access, sess, committed>>

\* Any channel count, any sample count, and for every channel any split of
\* its region into two fragments at a sample boundary; 32-bit samples.
InterleaveInit ==
    /\ flowKind = "continuous"
    /\ store = StoreInit
    /\ access = NoAccess
    /\ sess = SessInit
    /\ committed = CommittedInit
    /\ \E num_channels \in 0..MaxChannels : \E samples \in 0..MaxPlaneSamples :
         \E split \in [1..num_channels -> 0..samples] :
           el = [kind |-> "interleave", pc |-> "start",
                 num_channels |-> num_channels, samples |-> samples, split |-> split,
                 src |-> [k \in 1..(samples * num_channels * SizeOfF32) |-> k],
                 planes |-> [c \in 1..num_channels |->
                               [plane1 |-> Zeros(split[c] * SizeOfF32),
                                plane2 |-> Zeros((samples - split[c]) * SizeOfF32)]],
                 out |-> <<>>]

InterleaveNext ==
    \/ interleave_write
    \/ interleave_read

InterleaveSpec == InterleaveInit /\ [][InterleaveNext]_vars

\* C37: de-interleaving a source into the planar fragments of its channels
\* and interleaving the joined fragments again gives the source bytes back,
\* for every channel count, sample count and split at a sample boundary.
C37_InterleaveRoundTrip ==
    (el.kind = "interleave" /\ el.pc = "read") => el.out = el.src

C37_Witness ==
    /\ el.kind = "interleave"
    /\ el.pc = "read"
    /\ el.num_channels = MaxChannels
    /\ el.samples = MaxPlaneSamples
    /\ el.split[1] = 1
    /\ el.split[2] = 0
    /\ el.out = el.src
(***************************************************************************)
(* Ownership of the store handles (rust/mxl/src/flow/reader.rs,            *)
(* flow/writer.rs, grain/reader.rs, grain/writer.rs, samples/reader.rs,    *)
(* samples/writer.rs). A wrapper is [ptr_null, released]: whether its      *)
(* pointer field is null, and how many times the store's release function  *)
(* was called on the handle so far. el.h[i] is the wrapper that holds      *)
(* handle i: state "none" (not created), "flow" (FlowReader / FlowWriter), *)
(* "typed" (grain or samples reader / writer), "gone" (every wrapper       *)
(* dropped); how records the way it went. el.temp counts the temporary     *)
(* readers of FlowWriter::get_flow_type.                                   *)
(***************************************************************************)
HandleIds == 1..MaxHandles
NoWrapper == [state |-> "none", ptr_null |-> TRUE, released |-> 0, how |-> "none"]

\* Drop for FlowReader / Drop for FlowWriter
FlowHandle_drop(w) ==
    IF ~w.ptr_null THEN [w EXCEPT !.released = @ + 1] ELSE w

\* destroy_inner of the four typed wrappers; release_ok: the status of the
\* store's release.
destroy_inner(w, release_ok) ==
    IF w.ptr_null
    THEN [w |-> w, result |-> "InvalidArg"]
    ELSE [w |-> [w EXCEPT !.ptr_null = TRUE, !.released = @ + 1],
          result |-> IF release_ok THEN "ok" ELSE "error"]

\* Drop for GrainReader / GrainWriter / SamplesReader / SamplesWriter
Typed_drop(w, release_ok) ==
    IF ~w.ptr_null THEN destroy_inner(w, release_ok).w ELSE w

\* a conversion that leaves the pointer in the generic wrapper
take_pointer_keeps(w) == w

\* self.reader = null_mut() / self.writer = null_mut() after the typed
\* wrapper is made from the pointer
take_pointer(w) == [w EXCEPT !.ptr_null = TRUE]

\* FlowWriter::get_flow_type: a temporary reader is created, asked for the
\* flow info and dropped; reader_ok: create_flow_reader succeeds.
get_flow_type(temp, reader_ok, info_ok) ==
    IF ~reader_ok
    THEN [temp |-> temp, ok |-> FALSE]
    ELSE [temp |-> [created |-> temp.created + 1,
                    released |-> temp.released +
                        FlowHandle_drop([ptr_null |-> FALSE, released |-> 0]).released],
          ok |-> info_ok]

\* create_flow_reader / create_flow_writer: handle i under a generic
\* wrapper; a flow has one writer at most.
handle_create(i) ==
    /\ el.kind = "handle"
    /\ el.h[i].state = "none"
    /\ \A j \in HandleIds : j < i => el.h[j].state /= "none"
    /\ el.side = "reader" \/ \A j \in HandleIds : el.h[j].state \in {"none", "gone"}
    /\ el' = [el EXCEPT !.h[i] = [state |-> "flow", ptr_null |-> FALSE,
                                  released |-> 0, how |-> "none"],
                        !.last = "create"]
    /\ UNCHANGED <<flowKind, store, access, sess, committed>>

\* to_grain_reader / to_samples_reader / to_grain_writer /
\* to_samples_writer (mut self): on Ok the typed wrapper is made from the
\* pointer and self's pointer nulled; self is dropped at the return in
\* either case.
handle_convert(i, op, reader_ok, info_ok) ==
    /\ el.kind = "handle"
    /\ el.h[i].state = "flow"
    /\ el.side = "reader" => reader_ok
    /\ \E t \in {IF el.side = "writer"
                 THEN get_flow_type(el.temp, reader_ok, info_ok)
                 ELSE [temp |-> el.temp, ok |-> info_ok]} :
       \E result \in {IF op = "to_grain" THEN to_grain(el.format, t.ok)
                      ELSE to_samples(el.format, t.ok)} :
           el' = [el EXCEPT
                    !.temp = t.temp,
                    !.last = IF result = "ok" THEN "convert_ok" ELSE "convert_failed",
                    !.h[i] = IF result = "ok"
                             THEN [state |-> "typed", ptr_null |-> FALSE,
                                   released |-> FlowHandle_drop(take_pointer(@)).released,
                                   how |-> "none"]
                             ELSE [FlowHandle_drop(@) EXCEPT !.state = "gone",
                                                            !.how = "convert_failed"]]
    /\ UNCHANGED <<flowKind, store, access, sess, committed>>

\* destroy(mut self) of a typed wrapper: destroy_inner, then self is
\* dropped.
handle_destroy(i, release_ok) ==
    /\ el.kind = "handle"
    /\ el.h[i].state = "typed"
    /\ \E r \in {destroy_inner(el.h[i], release_ok)} :
           el' = [el EXCEPT !.h[i] = [Typed_drop(r.w, release_ok) EXCEPT
                                          !.state = "gone", !.how = "destroy"],
                            !.last = "destroy_" \o r.result]
    /\ UNCHANGED <<flowKind, store, access, sess, committed>>

\* A generic or typed wrapper goes out of scope.
handle_drop(i, release_ok) ==
    /\ el.kind = "handle"
    /\ el.h[i].state \in {"flow", "typed"}
    /\ el' = [el EXCEPT !.h[i] = IF @.state = "flow"
                                 THEN [FlowHandle_drop(@) EXCEPT !.state = "gone",
                                                                !.how = "drop_flow"]
                                 ELSE [Typed_drop(@, release_ok) EXCEPT
                                           !.state = "gone", !.how = "drop_typed"],
                        !.last = "drop"]
    /\ UNCHANGED <<flowKind, store, access, sess, committed>>

HandleInit ==
    /\ store = StoreInit
    /\ access = NoAccess
    /\ sess = SessInit
    /\ committed = CommittedInit
    /\ \E format \in DataFormats : \E side \in {"reader", "writer"} :
           /\ flowKind = (IF format = "audio" THEN "continuous" ELSE "discrete")
           /\ el = [kind |-> "handle", format |-> format, side |-> side,
                    h |-> [i \in HandleIds |-> NoWrapper],
                    temp |-> [created |-> 0, released |-> 0],
                    last |-> "none"]

HandleNext ==
    \/ \E i \in HandleIds : handle_create(i)
    \/ \E i \in HandleIds : \E op \in {"to_grain", "to_samples"} :
       \E reader_ok \in BOOLEAN : \E info_ok \in BOOLEAN :
           handle_convert(i, op, reader_ok, info_ok)
    \/ \E i \in HandleIds : \E release_ok \in BOOLEAN : handle_destroy(i, release_ok)
    \/ \E i \in HandleIds : \E release_ok \in BOOLEAN : handle_drop(i, release_ok)

HandleSpec == HandleInit /\ [][HandleNext]_vars

\* C38: every reader or writer handle obtained from the store is released
\* exactly once over any sequence of conversions (successful or failed),
\* explicit destroys and drops of the wrappers that hold it: the store's
\* release is never called while a wrapper still holds the handle, never
\* called twice, and has been called once when every wrapper is gone; the
\* temporary readers of the writer's type query are all released.
C38_ReleasedExactlyOnce ==
    el.kind = "handle" =>
        /\ \A i \in HandleIds :
               /\ el.h[i].released <= 1
               /\ el.h[i].state \in {"none", "flow", "typed"} => el.h[i].released = 0
               /\ el.h[i].state \in {"flow", "typed"} => ~el.h[i].ptr_null
               /\ el.h[i].state = "gone" => el.h[i].released = 1
        /\ el.temp.released = el.temp.created

C38_Witness ==
    /\ el.kind = "handle"
    /\ el.side = "writer"
    /\ el.h[1].how = "convert_failed"
    /\ el.h[1].released = 1
    /\ el.h[2].how = "destroy"
    /\ el.h[2].released = 1
    /\ el.temp.created = 2
    /\ el.last = "destroy_error"
(***************************************************************************)
(* The zero-copy payload view of the discrete reader                       *)
(* (rust/mxl/src/grain/reader.rs, rust/mxl/src/grain/data.rs) and its copy *)
(* into the output buffer (rust/gst-mxl-rs/src/mxlsrc/create_video.rs),    *)
(* next to a writer of the same flow. GrainData.payload is a slice of the  *)
(* ring's memory: el.view is the slot it points into. The copy reads the   *)
(* slot byte by byte, at any time relative to the writer's stores.         *)
(* el.expected: the payload committed at the index read, as far as the     *)
(* last commit tells (<<>> otherwise); el.seen: the bytes of the view when *)
(* get_complete_grain returned it.                                         *)
(***************************************************************************)
\* get_complete_grain(index, timeout) as create_video calls it: on Ok a view
\* of the slot's memory, on Err NoDataCreated.
copy_get_complete_grain(index) ==
    /\ el.kind = "grain_copy"
    /\ el.pc = "idle"
    /\ \E r \in {GetCompleteGrain(store, index)} :
           /\ r.status /= "pending"
           /\ el' = IF r.status = "ok"
                    THEN [el EXCEPT !.pc = "copy", !.index = index,
                                    !.view = [payload_ptr |-> Slot(index),
                                              len |-> r.total_size],
                                    !.out = <<>>,
                                    !.seen = r.payload,
                                    !.expected =
                                        IF committed.count = 1 /\ committed.index = index
                                        THEN committed.data ELSE <<>>,
                                    !.result = "none"]
                    ELSE [el EXCEPT !.result = "NoDataCreated"]
    /\ UNCHANGED <<flowKind, store, access, sess, committed>>

\* map.as_mut_slice().copy_from_slice(grain_data.payload): the next byte of
\* the view goes to the buffer; after the last one the buffer is returned.
copy_from_slice ==
    /\ el.kind = "grain_copy"
    /\ el.pc = "copy"
    /\ \E out \in {Append(el.out,
                          store.grains[el.view.payload_ptr].payload[Len(el.out) + 1])} :
           el' = [el EXCEPT !.out = out,
                            !.pc = IF Len(out) = el.view.len THEN "idle" ELSE "copy",
                            !.result = IF Len(out) = el.view.len THEN "DataCreated"
                                       ELSE "none"]
    /\ UNCHANGED <<flowKind, store, access, sess, committed>>

\* The writer of the flow opens its grains at increasing indices.
producer_open_grain(i) ==
    /\ sess.n = 0 \/ i > sess.index
    /\ OpenGrain(i)

GrainCopyInit ==
    /\ flowKind = "discrete"
    /\ store = StoreInit
    /\ access = NoAccess
    /\ sess = SessInit
    /\ committed = CommittedInit
    /\ el = [kind |-> "grain_copy", pc |-> "idle", index |-> 0,
             view |-> [payload_ptr |-> 0, len |-> 0],
             out |-> <<>>, seen |-> <<>>, expected |-> <<>>, result |-> "none"]

GrainCopyNext ==
    \/ \E i \in 0..MaxIndex : producer_open_grain(i)
    \/ \E b \in 1..MaxFill : PayloadMut(b)
    \/ GrainCommit(TotalSlices)
    \/ \E i \in 0..MaxIndex : copy_get_complete_grain(i)
    \/ copy_from_slice

GrainCopySpec == GrainCopyInit /\ [][GrainCopyNext]_vars

\* C39: the payload bytes the discrete reader has copied into its output
\* buffer for grain index i are the payload committed at index i, whatever
\* the writer does meanwhile (later grains committed, the slot of i opened
\* again after a wrap of the ring while the view is held). Stated for a
\* view that showed the committed payload when the reader got it.
C39_CopyIsCommittedPayload ==
    (el.kind = "grain_copy" /\ el.result = "DataCreated" /\ el.expected /= <<>>
        /\ el.seen = el.expected) =>
        el.out = el.expected
====
